---- MODULE Spec2Model ----
(***************************************************************************)
(* safe-kill: the permission-decision core.                                *)
(*                                                                         *)
(*   ancestry.rs      AncestryChecker  (trust root, parent-chain walk,     *)
(*                                      suicide check)                     *)
(*   policy.rs        PolicyEngine     (can_kill, kill_by_pid / _name /    *)
(*                                      _port, list_killable, refresh)     *)
(*   killer.rs        ProcessKiller, KillResult, BatchKillResult           *)
(*   config.rs        Config           (allow / deny lists, allowed ports) *)
(*   process_info.rs  ProcessInfoProvider (a snapshot of the process table)*)
(*   port.rs          PortDetector                                         *)
(*                                                                         *)
(* Option<T> is modelled as a sequence of length 0 (None) or 1 (Some).     *)
(* A snapshot is a function from pids to Option<record>, a record being    *)
(* [parent_pid : Option<pid>, name : string]; the cmd field of ProcessInfo *)
(* is never read by any decision and is left out.                          *)
(***************************************************************************)
EXTENDS Integers, Sequences, FiniteSets, TLC

VARIABLES
    os,             \* the operating system's live process table
    provider,       \* PolicyEngine.provider: its snapshot
    anc_provider,   \* PolicyEngine.ancestry.provider: its snapshot
    port_provider,  \* PolicyEngine.port_detector.provider: its snapshot
    root_pid,       \* PolicyEngine.ancestry.root_pid (TrustRoot)
    config,         \* PolicyEngine.config
    current_pid,    \* std::process::id() of the tool
    env_root_pid,   \* the SAFE_KILL_ROOT_PID environment variable
    pc,             \* position of the constructor / refresh / caller
    call,           \* the last call made: its name and arguments
    ret,            \* what the last call returned
    sent,           \* SignalSender::send calls made by the last call, in order
    os_events       \* number of process-table changes so far

vars == <<os, provider, anc_provider, port_provider, root_pid, config,
          current_pid, env_root_pid, pc, call, ret, sent, os_events>>

----------------------------------------------------------------------------
(* Option<T> *)

None == <<>>

Some(x) == <<x>>

IsSome(o) == Len(o) = 1

IsNone(o) == Len(o) = 0

Unwrap(o) == o[1]

----------------------------------------------------------------------------
(* Bounds of the ancestry specification *)

\* pids 1..AncPids carry arbitrary records in the small snapshots
AncPids == 3

\* ancestry.rs:9
MAX_ANCESTRY_DEPTH == 100

Names == {"a", "b"}

----------------------------------------------------------------------------
(* process_info.rs *)

ProcessInfo(pid, parent_pid, name) ==
    [pid |-> pid, parent_pid |-> parent_pid, name |-> name]

\* ProcessInfoProvider::get: the record of pid in the snapshot, if any
get(snap, pid) ==
    IF pid \in DOMAIN snap /\ IsSome(snap[pid])
    THEN Some(ProcessInfo(pid, Unwrap(snap[pid]).parent_pid, Unwrap(snap[pid]).name))
    ELSE None

----------------------------------------------------------------------------
(* ancestry.rs: is_descendant_of *)

\* One iteration of the while loop of is_descendant_of at pid cur: the loop
\* returns true ("found"), returns false ("stop"), or continues at the parent.
walk_step_init_first(snap, cur, ancestor_pid) ==
    LET info == get(snap, cur) IN
    IF IsNone(info) THEN [at |-> "stop"]
    ELSE IF IsNone(Unwrap(info).parent_pid) THEN [at |-> "stop"]
    ELSE IF Unwrap(Unwrap(info).parent_pid) = 1 THEN [at |-> "stop"]
    ELSE IF Unwrap(Unwrap(info).parent_pid) = ancestor_pid THEN [at |-> "found"]
    ELSE [at |-> "next", pid |-> Unwrap(Unwrap(info).parent_pid)]

walk_step(snap, cur, ancestor_pid) ==
    LET info == get(snap, cur) IN
    IF IsNone(info) THEN [at |-> "stop"]
    ELSE IF IsNone(Unwrap(info).parent_pid) THEN [at |-> "stop"]
    ELSE IF Unwrap(Unwrap(info).parent_pid) = ancestor_pid THEN [at |-> "found"]
    ELSE IF Unwrap(Unwrap(info).parent_pid) = 1 THEN [at |-> "stop"]
    ELSE [at |-> "next", pid |-> Unwrap(Unwrap(info).parent_pid)]

\* Up to n >= 1 consecutive iterations of the while loop, the first at pid cur:
\* where the loop stands after them ("found", "stop", or "next" with the pid of
\* the iteration to come) and how many iterations ran. Every iteration makes one
\* provider.get call. n iterations are n \div 2 iterations followed, if the loop
\* is still running, by the rest; the evaluation then nests 7 deep instead of 100.
RECURSIVE walk_iterations(_, _, _, _)
walk_iterations(snap, cur, ancestor_pid, n) ==
    IF n = 1
    THEN [at |-> walk_step(snap, cur, ancestor_pid).at,
          pid |-> IF walk_step(snap, cur, ancestor_pid).at = "next"
                  THEN walk_step(snap, cur, ancestor_pid).pid ELSE cur,
          iterations |-> 1]
    ELSE LET first == walk_iterations(snap, cur, ancestor_pid, n \div 2) IN
         IF first.at # "next" THEN first
         ELSE LET rest == walk_iterations(snap, first.pid, ancestor_pid, n - (n \div 2))
              IN  [rest EXCEPT !.iterations = first.iterations + rest.iterations]

\* the loop with the bound tested as depth <= MAX_ANCESTRY_DEPTH
walk_off_by_one(snap, target_pid, ancestor_pid) ==
    LET end == walk_iterations(snap, target_pid, ancestor_pid, MAX_ANCESTRY_DEPTH + 1)
    IN  [result |-> end.at = "found", lookups |-> end.iterations]

\* The while loop of is_descendant_of (depth = 0 .. MAX_ANCESTRY_DEPTH - 1) and
\* the final `false`: the result, and the number of lookups made.
walk(snap, target_pid, ancestor_pid) ==
    LET end == walk_iterations(snap, target_pid, ancestor_pid, MAX_ANCESTRY_DEPTH)
    IN  [result |-> end.at = "found", lookups |-> end.iterations]

\* is_descendant_of without the reflexive early return
is_descendant_of_run_irreflexive(snap, target_pid, ancestor_pid) ==
    walk(snap, target_pid, ancestor_pid)

\* AncestryChecker::is_descendant_of, with the number of lookups it made
is_descendant_of_run(snap, target_pid, ancestor_pid) ==
    IF target_pid = ancestor_pid
    THEN [result |-> TRUE, lookups |-> 0]
    ELSE walk(snap, target_pid, ancestor_pid)

is_descendant_of(snap, target_pid, ancestor_pid) ==
    is_descendant_of_run(snap, target_pid, ancestor_pid).result

\* is_descendant that does not count the trust root itself
is_descendant_excludes_root(target_pid) ==
    target_pid # root_pid /\ is_descendant_of(anc_provider, target_pid, root_pid)

\* AncestryChecker::is_descendant: is_descendant_of against the trust root
is_descendant(target_pid) == is_descendant_of(anc_provider, target_pid, root_pid)

\* is_suicide that protects the trust root instead of the direct parent
is_suicide_of_trust_root(target_pid) ==
    target_pid = current_pid \/ target_pid = root_pid

\* AncestryChecker::is_suicide: the target is the tool itself or the parent the
\* checker's snapshot records for the tool
is_suicide(target_pid) ==
    IF target_pid = current_pid THEN TRUE
    ELSE LET info == get(anc_provider, current_pid) IN
         IF IsSome(info) /\ IsSome(Unwrap(info).parent_pid)
               /\ target_pid = Unwrap(Unwrap(info).parent_pid)
         THEN TRUE
         ELSE FALSE

----------------------------------------------------------------------------
(* config.rs: Config {allowlist, denylist, allowed_ports}. A ProcessList is *)
(* modelled by the set of its names: it is only searched with any().        *)

\* Config::is_allowed
is_allowed(name) ==
    IF IsSome(config.allowlist) THEN name \in Unwrap(config.allowlist) ELSE FALSE

\* Config::is_denied
is_denied(name) ==
    IF IsSome(config.denylist) THEN name \in Unwrap(config.denylist) ELSE FALSE

----------------------------------------------------------------------------
(* policy.rs: KillPermission and PolicyEngine::can_kill *)

Allowed == [kind |-> "Allowed"]

AllowedByAllowlist == [kind |-> "AllowedByAllowlist"]

DeniedByDenylist(name) == [kind |-> "DeniedByDenylist", name |-> name]

DeniedNotDescendant == [kind |-> "DeniedNotDescendant"]

DeniedSuicidePrevention == [kind |-> "DeniedSuicidePrevention"]

\* KillPermission::is_allowed
permission_is_allowed(permission) ==
    permission.kind \in {"Allowed", "AllowedByAllowlist"}

\* can_kill with the denylist tested before suicide prevention
can_kill_denylist_first(process) ==
    IF is_denied(process.name) THEN DeniedByDenylist(process.name)
    ELSE IF is_suicide(process.pid) THEN DeniedSuicidePrevention
    ELSE IF is_allowed(process.name) THEN AllowedByAllowlist
    ELSE IF is_descendant(process.pid) THEN Allowed
    ELSE DeniedNotDescendant

\* can_kill with the allowlist tested before the denylist
can_kill_allowlist_first(process) ==
    IF is_suicide(process.pid) THEN DeniedSuicidePrevention
    ELSE IF is_allowed(process.name) THEN AllowedByAllowlist
    ELSE IF is_denied(process.name) THEN DeniedByDenylist(process.name)
    ELSE IF is_descendant(process.pid) THEN Allowed
    ELSE DeniedNotDescendant

\* can_kill with ancestry tested before the allowlist
can_kill_ancestry_first(process) ==
    IF is_suicide(process.pid) THEN DeniedSuicidePrevention
    ELSE IF is_denied(process.name) THEN DeniedByDenylist(process.name)
    ELSE IF is_descendant(process.pid) THEN Allowed
    ELSE IF is_allowed(process.name) THEN AllowedByAllowlist
    ELSE DeniedNotDescendant

\* can_kill with the ancestry of the tool tested instead of the target's
can_kill_own_ancestry(process) ==
    IF is_suicide(process.pid) THEN DeniedSuicidePrevention
    ELSE IF is_denied(process.name) THEN DeniedByDenylist(process.name)
    ELSE IF is_allowed(process.name) THEN AllowedByAllowlist
    ELSE IF is_descendant(current_pid) THEN Allowed
    ELSE DeniedNotDescendant

\* PolicyEngine::can_kill
can_kill(process) ==
    IF is_suicide(process.pid) THEN DeniedSuicidePrevention
    ELSE IF is_denied(process.name) THEN DeniedByDenylist(process.name)
    ELSE IF is_allowed(process.name) THEN AllowedByAllowlist
    ELSE IF is_descendant(process.pid) THEN Allowed
    ELSE DeniedNotDescendant

----------------------------------------------------------------------------
(* config.rs: allowed ports. A port specification is a string, modelled as  *)
(* the sequence of its characters.                                          *)

\* u16::MAX
U16_MAX == 65535

DigitValue ==
    [c \in {"0", "1", "2", "3", "4", "5", "6", "7", "8", "9"} |->
        CASE c = "0" -> 0 [] c = "1" -> 1 [] c = "2" -> 2 [] c = "3" -> 3
          [] c = "4" -> 4 [] c = "5" -> 5 [] c = "6" -> 6 [] c = "7" -> 7
          [] c = "8" -> 8 [] c = "9" -> 9]

\* str::trim_start / trim_end / trim on the whitespace character " "
RECURSIVE trim_start(_)
trim_start(str) ==
    IF str # <<>> /\ Head(str) = " " THEN trim_start(Tail(str)) ELSE str

RECURSIVE trim_end(_)
trim_end(str) ==
    IF str # <<>> /\ str[Len(str)] = " "
    THEN trim_end(SubSeq(str, 1, Len(str) - 1)) ELSE str

trim(str) == trim_end(trim_start(str))

\* str::contains('-')
contains_dash(str) == \E i \in 1..Len(str) : str[i] = "-"

\* str::split('-'): the parts between the separators, empty parts included
RECURSIVE split_dash(_, _)
split_dash(str, part) ==
    IF str = <<>> THEN <<part>>
    ELSE IF Head(str) = "-" THEN <<part>> \o split_dash(Tail(str), <<>>)
    ELSE split_dash(Tail(str), Append(part, Head(str)))

\* the digits of str read as a decimal number on top of acc; None at a
\* character that is no digit or when the value leaves u16
RECURSIVE parse_digits(_, _)
parse_digits(str, acc) ==
    IF str = <<>> THEN Some(acc)
    ELSE IF Head(str) \notin DOMAIN DigitValue THEN None
    ELSE IF acc * 10 + DigitValue[Head(str)] > U16_MAX THEN None
    ELSE parse_digits(Tail(str), acc * 10 + DigitValue[Head(str)])

\* str::parse::<u16>: an optional "+" and at least one digit
parse_u16(str) ==
    LET digits == IF str # <<>> /\ Head(str) = "+" THEN Tail(str) ELSE str IN
    IF digits = <<>> THEN None ELSE parse_digits(digits, 0)

Single(port) == [kind |-> "Single", port |-> port]

Range(start, end) == [kind |-> "Range", start |-> start, end |-> end]

InvalidPortRange(spec) == [type |-> "InvalidPortRange", spec |-> spec]

Ok(value) == [ok |-> TRUE, value |-> value]

Err(error) == [ok |-> FALSE, error |-> error]

\* parse that accepts a range whose start is above its end
PortRange_parse_unordered(raw) ==
    LET spec == trim(raw) IN
    IF contains_dash(spec)
    THEN LET parts == split_dash(spec, <<>>) IN
         IF Len(parts) # 2 THEN Err(InvalidPortRange(spec))
         ELSE LET start == parse_u16(trim(parts[1]))
                  end == parse_u16(trim(parts[2]))
              IN  IF IsNone(start) THEN Err(InvalidPortRange(spec))
                  ELSE IF IsNone(end) THEN Err(InvalidPortRange(spec))
                  ELSE Ok(Range(Unwrap(start), Unwrap(end)))
    ELSE LET port == parse_u16(spec) IN
         IF IsNone(port) THEN Err(InvalidPortRange(spec))
         ELSE Ok(Single(Unwrap(port)))

\* PortRange::parse
PortRange_parse(raw) ==
    LET spec == trim(raw) IN
    IF contains_dash(spec)
    THEN LET parts == split_dash(spec, <<>>) IN
         IF Len(parts) # 2 THEN Err(InvalidPortRange(spec))
         ELSE LET start == parse_u16(trim(parts[1]))
                  end == parse_u16(trim(parts[2]))
              IN  IF IsNone(start) THEN Err(InvalidPortRange(spec))
                  ELSE IF IsNone(end) THEN Err(InvalidPortRange(spec))
                  ELSE IF Unwrap(start) > Unwrap(end) THEN Err(InvalidPortRange(spec))
                  ELSE Ok(Range(Unwrap(start), Unwrap(end)))
    ELSE LET port == parse_u16(spec) IN
         IF IsNone(port) THEN Err(InvalidPortRange(spec))
         ELSE Ok(Single(Unwrap(port)))

\* PortRange::contains
PortRange_contains(range, port) ==
    IF range.kind = "Single" THEN range.port = port
    ELSE port >= range.start /\ port <= range.end

\* a loop that looks at the first specification only
any_spec_contains_first_only(ports, i, port) ==
    /\ i <= Len(ports)
    /\ PortRange_parse(ports[i]).ok
    /\ PortRange_contains(PortRange_parse(ports[i]).value, port)

\* the for loop of is_port_allowed from specification i on
RECURSIVE any_spec_contains(_, _, _)
any_spec_contains(ports, i, port) ==
    IF i > Len(ports) THEN FALSE
    ELSE IF PortRange_parse(ports[i]).ok
            /\ PortRange_contains(PortRange_parse(ports[i]).value, port)
         THEN TRUE
    ELSE any_spec_contains(ports, i + 1, port)

\* is_port_allowed that allows every port when no ports are configured
is_port_allowed_open_by_default(port) ==
    IF IsNone(config.allowed_ports) THEN TRUE
    ELSE any_spec_contains(Unwrap(config.allowed_ports), 1, port)

\* Config::is_port_allowed
is_port_allowed(port) ==
    IF IsNone(config.allowed_ports) THEN FALSE
    ELSE any_spec_contains(Unwrap(config.allowed_ports), 1, port)

\* Config::port_not_allowed_hint
port_not_allowed_hint(port) ==
    "Add " \o ToString(port)
        \o " to [allowed_ports] in config.toml or run 'safe-kill init' to create a config file"

\* Config::check_port_allowed
check_port_allowed(port) ==
    IF is_port_allowed(port) THEN Ok(<<>>)
    ELSE Err([type |-> "PortNotAllowed", port |-> port,
              hint |-> port_not_allowed_hint(port)])

----------------------------------------------------------------------------
(* error.rs: SafeKillError and its Display text *)

NotDescendant(pid, name) == [type |-> "NotDescendant", pid |-> pid, name |-> name]

Denylisted(name) == [type |-> "Denylisted", name |-> name]

SuicidePrevention(pid) == [type |-> "SuicidePrevention", pid |-> pid]

ProcessNotFound(pid) == [type |-> "ProcessNotFound", pid |-> pid]

NoProcessOnPort(port) == [type |-> "NoProcessOnPort", port |-> port]

PortDetectionError(port, reason) ==
    [type |-> "PortDetectionError", port |-> port, reason |-> reason]

PermissionDenied(pid) == [type |-> "PermissionDenied", pid |-> pid]

SystemError(text) == [type |-> "SystemError", text |-> text]

\* the #[error("...")] text of each variant
to_string(error) ==
    CASE error.type = "NotDescendant" ->
            "Process " \o ToString(error.pid) \o " (" \o error.name
                \o ") is not a descendant of the current session"
      [] error.type = "Denylisted" ->
            "Process " \o error.name \o " is in denylist and cannot be killed"
      [] error.type = "SuicidePrevention" ->
            "Cannot kill self or parent process (PID: " \o ToString(error.pid) \o ")"
      [] error.type = "ProcessNotFound" ->
            "Process " \o ToString(error.pid) \o " not found"
      [] error.type = "NoProcessOnPort" ->
            "No process found on port " \o ToString(error.port)
      [] error.type = "PortNotAllowed" ->
            "Port " \o ToString(error.port) \o " is not allowed. " \o error.hint
      [] error.type = "PortDetectionError" ->
            "Failed to detect process on port " \o ToString(error.port)
                \o ": " \o error.reason
      [] error.type = "PermissionDenied" ->
            "Permission denied for PID " \o ToString(error.pid)
      [] error.type = "SystemError" -> "System error: " \o error.text

----------------------------------------------------------------------------
(* signal.rs: SignalSender::send. A signal is modelled by its name. A pid   *)
(* is a u32; TLC's integers end at 2^31 - 1, so u32(n) is the pair of bit   *)
(* 31 and the low 31 bits. kill(2) is the operating system's, as Linux      *)
(* does it: a process, the caller's process group (0), every process but    *)
(* init and the caller (-1), or the process group -pid. A record of the     *)
(* process table may carry the process group in pgid. ESRCH when no process *)
(* is addressed, EPERM when the caller may signal none of them (the pids of *)
(* eperm), success else.                                                    *)

I32_MAX == 2147483647

\* the u32 of a number below 2^31
u32(n) == [hi |-> 0, lo |-> n]

\* pid as i32: the same 32 bits read as two's complement
as_i32(pid) == IF pid.hi = 0 THEN pid.lo ELSE (pid.lo - I32_MAX) - 1

\* the processes kill(2) addresses with nix_pid, called by the tool
kill_targets(nix_pid) ==
    LET present == {p \in DOMAIN os : IsSome(os[p])} IN
    IF nix_pid > 0 THEN {p \in present : p = nix_pid}
    ELSE IF nix_pid = 0
         THEN {p \in present : Unwrap(os[p]).pgid = Unwrap(os[current_pid]).pgid}
    ELSE IF nix_pid = -1 THEN present \ {1, current_pid}
    ELSE IF nix_pid < -I32_MAX THEN {}
    ELSE {p \in present : Unwrap(os[p]).pgid = -nix_pid}

\* the processes that get the signal
kill_delivered(nix_pid, eperm) == kill_targets(nix_pid) \ eperm

\* nix::sys::signal::kill: the result
kill(nix_pid, eperm) ==
    IF kill_targets(nix_pid) = {} THEN "ESRCH"
    ELSE IF kill_delivered(nix_pid, eperm) = {} THEN "EPERM"
    ELSE "Ok"

\* SignalSender::send for the u32 pid; shown is the pid as the errors carry it
send_u32(pid, shown, eperm) ==
    LET nix_pid == as_i32(pid)
        result == kill(nix_pid, eperm)
    IN  IF result = "ESRCH" THEN Err(ProcessNotFound(shown))
        ELSE IF result = "EPERM" THEN Err(PermissionDenied(shown))
        ELSE Ok(<<>>)

\* SignalSender::send for a pid below 2^31
send(pid, signal, eperm) == send_u32(u32(pid), pid, eperm)

----------------------------------------------------------------------------
(* killer.rs: KillResult, BatchKillResult, ProcessKiller *)

KillResult_success(pid, name, signal) ==
    [pid |-> pid, name |-> name, success |-> TRUE,
     message |-> "Sent " \o signal \o " to process"]

KillResult_failure(pid, name, error) ==
    [pid |-> pid, name |-> name, success |-> FALSE, message |-> to_string(error)]

KillResult_dry_run(pid, name, signal) ==
    [pid |-> pid, name |-> name, success |-> TRUE,
     message |-> "Would send " \o signal \o " to process (dry run)"]

\* BatchKillResult::new
BatchKillResult_new == [results |-> <<>>, total_matched |-> 0, total_killed |-> 0]

\* add that counts every entry as killed
BatchKillResult_add_counts_all(batch, result) ==
    [results |-> Append(batch.results, result),
     total_matched |-> batch.total_matched + 1,
     total_killed |-> batch.total_killed + 1]

\* BatchKillResult::add
BatchKillResult_add(batch, result) ==
    [results |-> Append(batch.results, result),
     total_matched |-> batch.total_matched + 1,
     total_killed |-> IF result.success THEN batch.total_killed + 1
                      ELSE batch.total_killed]

\* all_success that does not ask for an entry
all_success_of_empty(batch) == batch.total_killed = batch.total_matched

\* BatchKillResult::all_success
all_success(batch) ==
    batch.total_matched > 0 /\ batch.total_killed = batch.total_matched

\* BatchKillResult::any_success
any_success(batch) == batch.total_killed > 0

\* BatchKillResult::is_empty
is_empty(batch) == batch.results = <<>>

\* kill_with_result that sends before it looks at dry_run
kill_with_result_sends_first(pid, name, signal, dry_run, eperm) ==
    [result |-> IF dry_run THEN KillResult_dry_run(pid, name, signal)
                ELSE IF send(pid, signal, eperm).ok
                     THEN KillResult_success(pid, name, signal)
                ELSE KillResult_failure(pid, name, send(pid, signal, eperm).error),
     sends |-> <<[pid |-> pid, signal |-> signal]>>]

\* kill_with_result that sends once more after a failed send
kill_with_result_retries(pid, name, signal, dry_run, eperm) ==
    IF dry_run
    THEN [result |-> KillResult_dry_run(pid, name, signal), sends |-> <<>>]
    ELSE IF send(pid, signal, eperm).ok
    THEN [result |-> KillResult_success(pid, name, signal),
          sends |-> <<[pid |-> pid, signal |-> signal]>>]
    ELSE [result |-> KillResult_failure(pid, name, send(pid, signal, eperm).error),
          sends |-> <<[pid |-> pid, signal |-> signal], [pid |-> pid, signal |-> signal]>>]

\* ProcessKiller::kill_with_result (with ProcessKiller::kill): the KillResult
\* and the send calls made
kill_with_result(pid, name, signal, dry_run, eperm) ==
    IF dry_run
    THEN [result |-> KillResult_dry_run(pid, name, signal), sends |-> <<>>]
    ELSE [result |-> IF send(pid, signal, eperm).ok
                     THEN KillResult_success(pid, name, signal)
                     ELSE KillResult_failure(pid, name, send(pid, signal, eperm).error),
          sends |-> <<[pid |-> pid, signal |-> signal]>>]

----------------------------------------------------------------------------
(* process_info.rs: find_by_name. The processes are kept in a HashMap, whose *)
(* iteration order is any order: order is the sequence of all pids in the   *)
(* order of this iteration.                                                 *)

\* the subsequence of order whose pids have a record named name
RECURSIVE find_by_name(_, _, _)
find_by_name(snap, name, order) ==
    IF order = <<>> THEN <<>>
    ELSE IF IsSome(get(snap, Head(order))) /\ Unwrap(get(snap, Head(order))).name = name
         THEN <<Unwrap(get(snap, Head(order)))>> \o find_by_name(snap, name, Tail(order))
    ELSE find_by_name(snap, name, Tail(order))

----------------------------------------------------------------------------
(* port.rs: PortDetector::find_by_port. listeners is the sequence of the    *)
(* associated pids of the sockets bound to the port, as get_sockets_info    *)
(* lists them at the time of the call (duplicates possible, any order).     *)

PortProcess(pid, name, port) == [pid |-> pid, name |-> name, port |-> port]

\* the name of pid in the detector's snapshot, "pid:<pid>" without a record
port_process_name(pid) ==
    IF IsSome(get(port_provider, pid)) THEN Unwrap(get(port_provider, pid)).name
    ELSE "pid:" \o ToString(pid)

\* slice::sort_by_key(|p| p.pid): a stable sort, here by insertion
RECURSIVE insert_by_pid(_, _)
insert_by_pid(sorted, pp) ==
    IF sorted = <<>> THEN <<pp>>
    ELSE IF sorted[Len(sorted)].pid <= pp.pid THEN Append(sorted, pp)
    ELSE Append(insert_by_pid(SubSeq(sorted, 1, Len(sorted) - 1), pp),
                sorted[Len(sorted)])

RECURSIVE sort_by_pid(_, _)
sort_by_pid(results, sorted) ==
    IF results = <<>> THEN sorted
    ELSE sort_by_pid(Tail(results), insert_by_pid(sorted, Head(results)))

\* Vec::dedup_by_key(|p| p.pid): of consecutive equal pids the first is kept
RECURSIVE dedup_by_pid(_, _)
dedup_by_pid(results, kept) ==
    IF results = <<>> THEN kept
    ELSE IF kept # <<>> /\ kept[Len(kept)].pid = Head(results).pid
         THEN dedup_by_pid(Tail(results), kept)
    ELSE dedup_by_pid(Tail(results), Append(kept, Head(results)))

\* find_by_port after a successful get_sockets_info
find_by_port(port, listeners) ==
    LET results == [i \in 1..Len(listeners) |->
                        PortProcess(listeners[i], port_process_name(listeners[i]), port)]
    IN  dedup_by_pid(sort_by_pid(results, <<>>), <<>>)

----------------------------------------------------------------------------
(* policy.rs: the operations. Each yields [ret, sends]: what the call        *)
(* returns and the SignalSender::send calls it made, in order.              *)

\* can_kill_for_port with the denylist test only
can_kill_for_port_no_suicide_check(pid, name) ==
    IF is_denied(name) THEN DeniedByDenylist(name)
    ELSE Allowed

\* can_kill_for_port that also asks for a descendant of the trust root
can_kill_for_port_with_ancestry(pid, name) ==
    IF is_suicide(pid) THEN DeniedSuicidePrevention
    ELSE IF is_denied(name) THEN DeniedByDenylist(name)
    ELSE IF is_descendant(pid) THEN Allowed
    ELSE DeniedNotDescendant

\* PolicyEngine::can_kill_for_port
can_kill_for_port(pid, name) ==
    IF is_suicide(pid) THEN DeniedSuicidePrevention
    ELSE IF is_denied(name) THEN DeniedByDenylist(name)
    ELSE Allowed

\* kill_by_pid that signals whatever the permission
kill_by_pid_unchecked(pid, signal, dry_run, eperm) ==
    LET process == get(provider, pid) IN
    IF IsNone(process) THEN [ret |-> Err(ProcessNotFound(pid)), sends |-> <<>>]
    ELSE LET killed == kill_with_result(pid, Unwrap(process).name, signal, dry_run, eperm)
         IN  [ret |-> Ok(killed.result), sends |-> killed.sends]

\* kill_by_pid that checks the permission of the pid before it looks for the
\* record
kill_by_pid_permission_first(pid, signal, dry_run, eperm) ==
    LET process == get(provider, pid)
        name == IF IsSome(process) THEN Unwrap(process).name ELSE ""
        permission == can_kill(ProcessInfo(pid, None, name))
        killed == kill_with_result(pid, name, signal, dry_run, eperm)
    IN  CASE permission.kind = "DeniedByDenylist" ->
               [ret |-> Err(Denylisted(permission.name)), sends |-> <<>>]
          [] permission.kind = "DeniedNotDescendant" ->
               [ret |-> Err(NotDescendant(pid, name)), sends |-> <<>>]
          [] permission.kind = "DeniedSuicidePrevention" ->
               [ret |-> Err(SuicidePrevention(pid)), sends |-> <<>>]
          [] OTHER ->
               IF IsNone(process)
               THEN [ret |-> Err(ProcessNotFound(pid)), sends |-> <<>>]
               ELSE [ret |-> Ok(killed.result), sends |-> killed.sends]

\* kill_by_pid that reports a denylisted process as no descendant and a
\* process that is no descendant as denylisted
kill_by_pid_swapped_errors(pid, signal, dry_run, eperm) ==
    LET process == get(provider, pid) IN
    IF IsNone(process) THEN [ret |-> Err(ProcessNotFound(pid)), sends |-> <<>>]
    ELSE LET permission == can_kill(Unwrap(process))
             killed == kill_with_result(pid, Unwrap(process).name, signal, dry_run, eperm)
         IN  CASE permission.kind \in {"Allowed", "AllowedByAllowlist"} ->
                    [ret |-> Ok(killed.result), sends |-> killed.sends]
               [] permission.kind = "DeniedByDenylist" ->
                    [ret |-> Err(NotDescendant(pid, Unwrap(process).name)), sends |-> <<>>]
               [] permission.kind = "DeniedNotDescendant" ->
                    [ret |-> Err(Denylisted(Unwrap(process).name)), sends |-> <<>>]
               [] permission.kind = "DeniedSuicidePrevention" ->
                    [ret |-> Err(SuicidePrevention(pid)), sends |-> <<>>]

\* PolicyEngine::kill_by_pid
kill_by_pid(pid, signal, dry_run, eperm) ==
    LET process == get(provider, pid) IN
    IF IsNone(process) THEN [ret |-> Err(ProcessNotFound(pid)), sends |-> <<>>]
    ELSE LET permission == can_kill(Unwrap(process))
             killed == kill_with_result(pid, Unwrap(process).name, signal, dry_run, eperm)
         IN  CASE permission.kind \in {"Allowed", "AllowedByAllowlist"} ->
                    [ret |-> Ok(killed.result), sends |-> killed.sends]
               [] permission.kind = "DeniedByDenylist" ->
                    [ret |-> Err(Denylisted(permission.name)), sends |-> <<>>]
               [] permission.kind = "DeniedNotDescendant" ->
                    [ret |-> Err(NotDescendant(pid, Unwrap(process).name)), sends |-> <<>>]
               [] permission.kind = "DeniedSuicidePrevention" ->
                    [ret |-> Err(SuicidePrevention(pid)), sends |-> <<>>]

\* the error of a denied candidate without the rule that denied it
name_denial_error_unlabelled(permission, process) ==
    SystemError("Unexpected permission")

\* the error of a denied candidate of kill_by_name
name_denial_error(permission, process) ==
    CASE permission.kind = "DeniedByDenylist" -> Denylisted(permission.name)
      [] permission.kind = "DeniedNotDescendant" ->
            NotDescendant(process.pid, process.name)
      [] permission.kind = "DeniedSuicidePrevention" -> SuicidePrevention(process.pid)
      [] OTHER -> SystemError("Unexpected permission")

\* The for loop of kill_by_name from candidate i on; run is [ret, sends] with
\* ret the batch so far.
RECURSIVE kill_by_name_loop(_, _, _, _, _, _)
kill_by_name_loop(processes, i, signal, dry_run, eperm, run) ==
    IF i > Len(processes) THEN run
    ELSE LET process == processes[i]
             permission == can_kill(process)
             killed == kill_with_result(process.pid, process.name, signal, dry_run, eperm)
             result == IF permission_is_allowed(permission) THEN killed.result
                       ELSE KillResult_failure(process.pid, process.name,
                                               name_denial_error(permission, process))
             sends == IF permission_is_allowed(permission) THEN killed.sends ELSE <<>>
         IN  kill_by_name_loop(processes, i + 1, signal, dry_run, eperm,
                               [ret |-> BatchKillResult_add(run.ret, result),
                                sends |-> run.sends \o sends])

\* PolicyEngine::kill_by_name
kill_by_name(name, signal, dry_run, order, eperm) ==
    LET processes == find_by_name(provider, name, order) IN
    IF processes = <<>> THEN [ret |-> Err(ProcessNotFound(0)), sends |-> <<>>]
    ELSE LET run == kill_by_name_loop(processes, 1, signal, dry_run, eperm,
                                      [ret |-> BatchKillResult_new, sends |-> <<>>])
         IN  [ret |-> Ok(run.ret), sends |-> run.sends]

\* the error of a denied candidate of kill_by_port
port_denial_error(permission, pid) ==
    CASE permission.kind = "DeniedByDenylist" -> Denylisted(permission.name)
      [] permission.kind = "DeniedSuicidePrevention" -> SuicidePrevention(pid)
      [] OTHER -> SystemError("Unexpected permission")

\* the name kill_by_port gives to the owner pp: the one of the engine's
\* snapshot, or the detector's without a record there
port_owner_name(pp) ==
    IF IsSome(get(provider, pp.pid)) THEN Unwrap(get(provider, pp.pid)).name
    ELSE pp.name

\* The for loop of kill_by_port from owner i on
RECURSIVE kill_by_port_loop(_, _, _, _, _, _)
kill_by_port_loop(port_processes, i, signal, dry_run, eperm, run) ==
    IF i > Len(port_processes) THEN run
    ELSE LET pp == port_processes[i]
             process_name == port_owner_name(pp)
             permission == can_kill_for_port(pp.pid, process_name)
             killed == kill_with_result(pp.pid, process_name, signal, dry_run, eperm)
             result == IF permission_is_allowed(permission) THEN killed.result
                       ELSE KillResult_failure(pp.pid, process_name,
                                               port_denial_error(permission, pp.pid))
             sends == IF permission_is_allowed(permission) THEN killed.sends ELSE <<>>
         IN  kill_by_port_loop(port_processes, i + 1, signal, dry_run, eperm,
                               [ret |-> BatchKillResult_add(run.ret, result),
                                sends |-> run.sends \o sends])

\* kill_by_port that looks for the owners before it checks the port
kill_by_port_lookup_first(port, signal, dry_run, sockets, eperm) ==
    IF ~sockets.ok
    THEN [ret |-> Err(PortDetectionError(port, sockets.error)), sends |-> <<>>]
    ELSE LET port_processes == find_by_port(port, sockets.value) IN
         IF port_processes = <<>>
         THEN [ret |-> Err(NoProcessOnPort(port)), sends |-> <<>>]
         ELSE IF ~check_port_allowed(port).ok
         THEN [ret |-> Err(check_port_allowed(port).error), sends |-> <<>>]
         ELSE LET run == kill_by_port_loop(port_processes, 1, signal, dry_run, eperm,
                                           [ret |-> BatchKillResult_new, sends |-> <<>>])
              IN  [ret |-> Ok(run.ret), sends |-> run.sends]

\* PolicyEngine::kill_by_port; sockets is what get_sockets_info yields for the
\* port: Err(reason) or Ok(listeners)
kill_by_port(port, signal, dry_run, sockets, eperm) ==
    IF ~check_port_allowed(port).ok
    THEN [ret |-> Err(check_port_allowed(port).error), sends |-> <<>>]
    ELSE IF ~sockets.ok
    THEN [ret |-> Err(PortDetectionError(port, sockets.error)), sends |-> <<>>]
    ELSE LET port_processes == find_by_port(port, sockets.value) IN
         IF port_processes = <<>>
         THEN [ret |-> Err(NoProcessOnPort(port)), sends |-> <<>>]
         ELSE LET run == kill_by_port_loop(port_processes, 1, signal, dry_run, eperm,
                                           [ret |-> BatchKillResult_new, sends |-> <<>>])
              IN  [ret |-> Ok(run.ret), sends |-> run.sends]

\* ProcessInfoProvider::all: the records of the snapshot in the order of the
\* HashMap's iteration, order being the present pids in that order
all(snap, order) ==
    [i \in 1..Len(order) |->
        ProcessInfo(order[i], Unwrap(snap[order[i]]).parent_pid,
                    Unwrap(snap[order[i]]).name)]

\* Iterator::filter(|p| self.can_kill(p).is_allowed()) from record i on
RECURSIVE filter_killable(_, _)
filter_killable(processes, i) ==
    IF i > Len(processes) THEN <<>>
    ELSE IF permission_is_allowed(can_kill(processes[i]))
         THEN <<processes[i]>> \o filter_killable(processes, i + 1)
    ELSE filter_killable(processes, i + 1)

\* list_killable without the filter
list_killable_unfiltered(order) == all(provider, order)

\* PolicyEngine::list_killable
list_killable(order) == filter_killable(all(provider, order), 1)

----------------------------------------------------------------------------
(* ancestry.rs: trust root *)

\* the decimal digits of u32::MAX
U32_MAX_DIGITS == <<"4", "2", "9", "4", "9", "6", "7", "2", "9", "5">>

RECURSIVE strip_zeros(_)
strip_zeros(str) ==
    IF Len(str) > 1 /\ Head(str) = "0" THEN strip_zeros(Tail(str)) ELSE str

\* digit strings of the same length: a names a number greater than b
RECURSIVE digits_greater(_, _)
digits_greater(a, b) ==
    IF a = <<>> THEN FALSE
    ELSE IF DigitValue[Head(a)] # DigitValue[Head(b)]
         THEN DigitValue[Head(a)] > DigitValue[Head(b)]
    ELSE digits_greater(Tail(a), Tail(b))

RECURSIVE digits_value(_, _)
digits_value(str, acc) ==
    IF str = <<>> THEN acc
    ELSE digits_value(Tail(str), acc * 10 + DigitValue[Head(str)])

\* str::parse::<u32>: an optional "+" and at least one digit, nothing else (no
\* white space); None when the value leaves u32
parse_u32(str) ==
    LET digits == IF str # <<>> /\ Head(str) = "+" THEN Tail(str) ELSE str IN
    IF digits = <<>> THEN None
    ELSE IF \E i \in 1..Len(digits) : digits[i] \notin DOMAIN DigitValue THEN None
    ELSE LET number == strip_zeros(digits) IN
         IF Len(number) > Len(U32_MAX_DIGITS) THEN None
         ELSE IF Len(number) = Len(U32_MAX_DIGITS)
                 /\ digits_greater(number, U32_MAX_DIGITS) THEN None
         ELSE Some(digits_value(number, 0))

\* get_root_pid that resolves the grandparent before it looks at the override
get_root_pid_override_last(snap) ==
    LET current_info == get(snap, current_pid) IN
    IF IsSome(current_info) /\ IsSome(Unwrap(current_info).parent_pid)
    THEN LET parent_pid == Unwrap(Unwrap(current_info).parent_pid)
             parent_info == get(snap, parent_pid)
         IN  IF IsSome(parent_info) /\ IsSome(Unwrap(parent_info).parent_pid)
             THEN Unwrap(Unwrap(parent_info).parent_pid)
             ELSE parent_pid
    ELSE IF IsSome(env_root_pid) /\ IsSome(parse_u32(Unwrap(env_root_pid)))
    THEN Unwrap(parse_u32(Unwrap(env_root_pid)))
    ELSE current_pid

\* AncestryChecker::get_root_pid on the snapshot snap. env_root_pid is the
\* value of the environment variable SAFE_KILL_ROOT_PID, None when it is unset.
get_root_pid(snap) ==
    LET env_pid == IF IsSome(env_root_pid) THEN parse_u32(Unwrap(env_root_pid))
                   ELSE None
    IN
    IF IsSome(env_pid) THEN Unwrap(env_pid)
    ELSE LET current_info == get(snap, current_pid) IN
         IF IsSome(current_info) /\ IsSome(Unwrap(current_info).parent_pid)
         THEN LET parent_pid == Unwrap(Unwrap(current_info).parent_pid)
                  parent_info == get(snap, parent_pid)
              IN  IF IsSome(parent_info) /\ IsSome(Unwrap(parent_info).parent_pid)
                  THEN Unwrap(Unwrap(parent_info).parent_pid)
                  ELSE parent_pid
         ELSE current_pid

----------------------------------------------------------------------------
(* Values shared by the specifications *)

NoCall == [fn |-> "none"]

NoRet == [kind |-> "none"]

\* a record of a snapshot: Option<[parent_pid, name]>
Rec(parent_pid, name) == Some([parent_pid |-> parent_pid, name |-> name])

OptionOf(S) == {None} \cup {Some(x) : x \in S}

----------------------------------------------------------------------------
(* Specification SpecAncestry: is_descendant_of applied to bounded          *)
(* snapshots. The small snapshots give every pid of 1..AncPids no record,  *)
(* no parent or any parent (self-parents, cycles and links to a missing    *)
(* record or to pid 1 included); the long snapshot is one parent chain     *)
(* 2 <- 3 <- ... longer than MAX_ANCESTRY_DEPTH.                           *)

SmallSnapshots ==
    [1..AncPids -> {None} \cup {Rec(p, "a") : p \in OptionOf(1..AncPids)}]

ChainTop == MAX_ANCESTRY_DEPTH + 3

\* pid i has parent i + 1; the top of the chain has none; pid 1 has no record
LongChain ==
    [i \in 1..ChainTop |->
        IF i = 1 THEN None
        ELSE IF i = ChainTop THEN Rec(None, "a")
        ELSE Rec(Some(i + 1), "a")]

AncestrySnapshots == SmallSnapshots \cup {LongChain}

\* The pids a caller asks about: those of the snapshot and one beyond it; on
\* the long chain, its first pids and those around MAX_ANCESTRY_DEPTH hops up.
CallPids(snap) ==
    IF snap = LongChain
    THEN {1, 2, 3} \cup {p \in 1..(ChainTop + 1) : p >= MAX_ANCESTRY_DEPTH}
    ELSE DOMAIN snap \cup {Cardinality(DOMAIN snap) + 1}

InitAncestry ==
    /\ anc_provider \in AncestrySnapshots
    /\ os = anc_provider
    /\ provider = anc_provider
    /\ port_provider = anc_provider
    /\ root_pid = 1
    /\ config = [allowlist |-> None, denylist |-> None, allowed_ports |-> None]
    /\ current_pid = 1
    /\ env_root_pid = None
    /\ pc = "ready"
    /\ call = NoCall
    /\ ret = NoRet
    /\ sent = <<>>
    /\ os_events = 0

CallIsDescendantOf ==
    /\ call = NoCall
    /\ \E target_pid \in CallPids(anc_provider), ancestor_pid \in CallPids(anc_provider) :
          /\ call' = [fn |-> "is_descendant_of", target_pid |-> target_pid,
                      ancestor_pid |-> ancestor_pid]
          /\ ret' = is_descendant_of_run(anc_provider, target_pid, ancestor_pid)
          /\ UNCHANGED <<os, provider, anc_provider, port_provider, root_pid, config,
                         current_pid, env_root_pid, pc, sent, os_events>>

NextAncestry == CallIsDescendantOf

SpecAncestry == InitAncestry /\ [][NextAncestry]_vars

----------------------------------------------------------------------------
(* Claims about is_descendant_of (SpecAncestry) *)

\* the parent the snapshot records for pid, None without a record or a parent
ParentOf(snap, pid) ==
    IF IsNone(get(snap, pid)) THEN None ELSE Unwrap(get(snap, pid)).parent_pid

\* The 1st .. n-th parents of pid cur as the snapshot records them (n >= 1);
\* None from the first missing record or missing parent on. The chain is built
\* from its two halves.
RECURSIVE ParentChain(_, _, _)
ParentChain(snap, cur, n) ==
    IF n = 1 THEN <<ParentOf(snap, cur)>>
    ELSE LET h == n \div 2
             first == ParentChain(snap, cur, h)
         IN  IF IsNone(first[h]) THEN first \o [i \in 1..(n - h) |-> None]
             ELSE first \o ParentChain(snap, Unwrap(first[h]), n - h)

\* ancestor is the k-th parent of target for some 1 <= k <= MAX_ANCESTRY_DEPTH,
\* and none of the parents before it is pid 1
ReachesWithinDepth(snap, target_pid, ancestor_pid) ==
    LET ch == ParentChain(snap, target_pid, MAX_ANCESTRY_DEPTH) IN
    \E k \in 1..MAX_ANCESTRY_DEPTH :
        /\ ch[k] = Some(ancestor_pid)
        /\ \A j \in 1..(k - 1) : ch[j] # Some(1)

\* pid occurs among its own parents: the parent links through it form a cycle
OnCycle(snap, pid) ==
    LET ch == ParentChain(snap, pid, 2 * MAX_ANCESTRY_DEPTH) IN
    \E k \in 1..(2 * MAX_ANCESTRY_DEPTH) : ch[k] = Some(pid)

IsDescendantOfCalled == call.fn = "is_descendant_of"

\* C8: is_descendant_of(p, p) is true for every pid p and every snapshot, also
\* when p has no record, has no parent, or is pid 1.
C8_Reflexive ==
    (IsDescendantOfCalled /\ call.target_pid = call.ancestor_pid)
        => ret.result = TRUE

\* C8 witness: the call was made with target = ancestor on a pid without a record
C8_Witness ==
    /\ IsDescendantOfCalled
    /\ call.target_pid = call.ancestor_pid
    /\ IsNone(get(anc_provider, call.target_pid))
    /\ ret.result = TRUE

\* C9 as stated: for target # ancestor the result is true exactly when ancestor
\* is the k-th parent of target for some 1 <= k <= 100 with no pid 1 before it,
\* and it is false whenever ancestor is itself a strict descendant of target.
C9_AsStated ==
    (IsDescendantOfCalled /\ call.target_pid # call.ancestor_pid)
        => /\ ret.result =
                ReachesWithinDepth(anc_provider, call.target_pid, call.ancestor_pid)
           /\ ReachesWithinDepth(anc_provider, call.ancestor_pid, call.target_pid)
                => ret.result = FALSE

\* C9 amended: the same, the last part only for a target that is not one of its
\* own parents (no cycle of parent links through target).
C9_KthParent ==
    (IsDescendantOfCalled /\ call.target_pid # call.ancestor_pid)
        => /\ ret.result =
                ReachesWithinDepth(anc_provider, call.target_pid, call.ancestor_pid)
           /\ ( /\ ReachesWithinDepth(anc_provider, call.ancestor_pid, call.target_pid)
                /\ ~OnCycle(anc_provider, call.target_pid) )
                => ret.result = FALSE

\* C9 witness: on the long chain, the 100th parent is found
C9_Witness ==
    /\ IsDescendantOfCalled
    /\ anc_provider = LongChain
    /\ call.target_pid = 2
    /\ call.ancestor_pid = 2 + MAX_ANCESTRY_DEPTH
    /\ ret.result = TRUE

\* C10: the walk makes at most 100 record lookups on every snapshot, cyclic ones
\* included, and returns false when ancestor was not met within them.
C10_BoundedWalk ==
    IsDescendantOfCalled
        => /\ ret.lookups <= MAX_ANCESTRY_DEPTH
           /\ ( /\ call.target_pid # call.ancestor_pid
                /\ LET ch == ParentChain(anc_provider, call.target_pid,
                                         MAX_ANCESTRY_DEPTH)
                   IN  \A k \in 1..MAX_ANCESTRY_DEPTH : ch[k] # Some(call.ancestor_pid) )
                => ret.result = FALSE

\* C10 witness: a walk round a cycle of parent links used up all 100 lookups
C10_Witness ==
    /\ IsDescendantOfCalled
    /\ OnCycle(anc_provider, call.target_pid)
    /\ ret.lookups = MAX_ANCESTRY_DEPTH
    /\ ret.result = FALSE

----------------------------------------------------------------------------
(* Specification SpecPolicy: can_kill applied to bounded inputs. The        *)
(* checker's snapshot gives every pid of 1..PolPids no record, no parent or *)
(* any parent; the trust root is any pid (an override names any pid); the   *)
(* tool is pid 1 or pid 2 (the other pids are interchangeable); the lists   *)
(* are absent or hold the name "a"; the process record handed to can_kill   *)
(* has any pid and either name.                                             *)

PolPids == 3

PolicySnapshots ==
    [1..PolPids -> {None} \cup {Rec(p, "a") : p \in OptionOf(1..PolPids)}]

PolicyConfigs ==
    {[allowlist |-> al, denylist |-> dl, allowed_ports |-> None] :
        al \in OptionOf({{"a"}}), dl \in OptionOf({{"a"}})}

InitPolicy ==
    /\ anc_provider \in PolicySnapshots
    /\ os = anc_provider
    /\ provider = anc_provider
    /\ port_provider = anc_provider
    /\ root_pid \in 1..(PolPids + 1)
    /\ config \in PolicyConfigs
    /\ current_pid \in {1, 2}
    /\ env_root_pid = None
    /\ pc = "ready"
    /\ call = NoCall
    /\ ret = NoRet
    /\ sent = <<>>
    /\ os_events = 0

CallCanKill ==
    /\ call = NoCall
    /\ \E pid \in 1..(PolPids + 1), name \in Names :
          /\ call' = [fn |-> "can_kill", process |-> ProcessInfo(pid, None, name)]
          /\ ret' = can_kill(ProcessInfo(pid, None, name))
          /\ UNCHANGED <<os, provider, anc_provider, port_provider, root_pid, config,
                         current_pid, env_root_pid, pc, sent, os_events>>

NextPolicy == CallCanKill

SpecPolicy == InitPolicy /\ [][NextPolicy]_vars

----------------------------------------------------------------------------
(* Claims about can_kill (SpecPolicy) *)

CanKillCalled == call.fn = "can_kill"

\* pid is the tool's own pid or the parent the checker's snapshot records for it
SuicideTarget(pid) ==
    \/ pid = current_pid
    \/ ParentOf(anc_provider, current_pid) = Some(pid)

InDenySet(name) == IsSome(config.denylist) /\ name \in Unwrap(config.denylist)

InAllowSet(name) == IsSome(config.allowlist) /\ name \in Unwrap(config.allowlist)

DescendantOfTrustRoot(pid) ==
    pid = root_pid \/ ReachesWithinDepth(anc_provider, pid, root_pid)

\* C2: can_kill returns DeniedSuicidePrevention for every process whose pid is
\* the tool's own pid or its direct parent, whatever the lists and the root.
C2_SuicideFirst ==
    (CanKillCalled /\ SuicideTarget(call.process.pid))
        => ret = DeniedSuicidePrevention

\* C2 witness: the direct parent, named in both lists and a descendant of the
\* trust root, was denied as suicide
C2_Witness ==
    /\ CanKillCalled
    /\ call.process.pid # current_pid
    /\ SuicideTarget(call.process.pid)
    /\ InDenySet(call.process.name)
    /\ InAllowSet(call.process.name)
    /\ DescendantOfTrustRoot(call.process.pid)
    /\ ret = DeniedSuicidePrevention

\* C3: a process that is no suicide target and whose name is in the deny set
\* gets DeniedByDenylist(name), also when the name is allowlisted or the pid is
\* a descendant of the trust root.
C3_DenylistSecond ==
    (CanKillCalled /\ ~SuicideTarget(call.process.pid) /\ InDenySet(call.process.name))
        => ret = DeniedByDenylist(call.process.name)

\* C3 witness: a descendant named in both lists was denied by the denylist
C3_Witness ==
    /\ CanKillCalled
    /\ ~SuicideTarget(call.process.pid)
    /\ InDenySet(call.process.name)
    /\ InAllowSet(call.process.name)
    /\ DescendantOfTrustRoot(call.process.pid)
    /\ call.process.pid # root_pid
    /\ ret = DeniedByDenylist(call.process.name)

\* C4: a process that is no suicide target, not denylisted and allowlisted gets
\* AllowedByAllowlist whether or not it descends from the trust root.
C4_AllowlistThird ==
    ( /\ CanKillCalled
      /\ ~SuicideTarget(call.process.pid)
      /\ ~InDenySet(call.process.name)
      /\ InAllowSet(call.process.name) )
        => ret = AllowedByAllowlist

\* C4 witness: an allowlisted process that is no descendant was allowed
C4_Witness ==
    /\ CanKillCalled
    /\ ~SuicideTarget(call.process.pid)
    /\ ~InDenySet(call.process.name)
    /\ InAllowSet(call.process.name)
    /\ ~DescendantOfTrustRoot(call.process.pid)
    /\ ret = AllowedByAllowlist

\* C4 witness of the other case: an allowlisted descendant got AllowedByAllowlist
C4_WitnessDescendant ==
    /\ CanKillCalled
    /\ ~SuicideTarget(call.process.pid)
    /\ InAllowSet(call.process.name)
    /\ DescendantOfTrustRoot(call.process.pid)
    /\ ret = AllowedByAllowlist

\* C5: a process that is no suicide target and is named in neither list gets
\* Allowed if is_descendant(pid) holds against the trust root and
\* DeniedNotDescendant otherwise.
C5_AncestryLast ==
    ( /\ CanKillCalled
      /\ ~SuicideTarget(call.process.pid)
      /\ ~InDenySet(call.process.name)
      /\ ~InAllowSet(call.process.name) )
        => ret = IF DescendantOfTrustRoot(call.process.pid)
                 THEN Allowed ELSE DeniedNotDescendant

\* C5 witness: a strict descendant in neither list was allowed while the tool
\* itself does not descend from the trust root
C5_Witness ==
    /\ CanKillCalled
    /\ ~SuicideTarget(call.process.pid)
    /\ ~InDenySet(call.process.name)
    /\ ~InAllowSet(call.process.name)
    /\ call.process.pid # root_pid
    /\ ~DescendantOfTrustRoot(current_pid)
    /\ ret = Allowed

\* C5 witness of the other case: a non-descendant in neither list was denied
C5_WitnessDenied ==
    /\ CanKillCalled
    /\ ~SuicideTarget(call.process.pid)
    /\ ~InDenySet(call.process.name)
    /\ ~InAllowSet(call.process.name)
    /\ ret = DeniedNotDescendant

----------------------------------------------------------------------------
(* Specification Spec: the policy engine and the operating system.          *)
(*                                                                         *)
(* PolicyEngine::new takes three snapshots of the process table one after  *)
(* the other (provider, ancestry.provider, port_detector.provider) and     *)
(* refresh retakes them in the same order; the process table may change in *)
(* between. The kill operations take &self: they change nothing of the     *)
(* engine. call, ret and sent record the latest call only, and Return      *)
(* clears them, so a behaviour is any sequence of calls.                   *)

MaxPid == 3

MaxOsEvents == 1

Pids == 1..MaxPid

Signals == {"SIGTERM", "SIGKILL"}

Ports == {79, 91}

\* the allowed_ports of the configurations: "80", a malformed entry, "90-91"
PortSpecs == << <<"8", "0">>, <<"x">>, <<"9", "0", "-", "9", "1">> >>

\* Process tables: pid 1 is init and has no parent; every other pid is absent
\* or the child of a lower pid that is present.
OsTables ==
    {t \in [Pids -> {None} \cup {Rec(Some(q), n) : q \in Pids, n \in Names}
                           \cup {Rec(None, "a")}] :
        /\ t[1] = Rec(None, "a")
        /\ \A p \in Pids \ {1} :
              IsSome(t[p]) =>
                  /\ IsSome(Unwrap(t[p]).parent_pid)
                  /\ Unwrap(Unwrap(t[p]).parent_pid) < p
                  /\ IsSome(t[Unwrap(Unwrap(t[p]).parent_pid)])}

EngineConfigs ==
    {[allowlist |-> al, denylist |-> dl, allowed_ports |-> ap] :
        al \in OptionOf({{"a"}}), dl \in OptionOf({{"a"}}),
        ap \in OptionOf({PortSpecs})}

\* no snapshot taken yet
NoSnapshot == [p \in Pids |-> None]

\* a pid above those of the process table: no process has it
AbsentPid == Cardinality(DOMAIN os) + 1

Init ==
    /\ os \in OsTables
    /\ current_pid \in {p \in Pids \ {1} : IsSome(os[p])}
    /\ config \in EngineConfigs
    /\ env_root_pid \in {None, Some(<<"2">>)}
    /\ provider = NoSnapshot
    /\ anc_provider = NoSnapshot
    /\ port_provider = NoSnapshot
    /\ root_pid = 0
    /\ pc = "new_provider"
    /\ call = NoCall
    /\ ret = NoRet
    /\ sent = <<>>
    /\ os_events = 0

(* The operating system *)

\* process pid exits; its children become children of pid 1
OsExit ==
    /\ os_events < MaxOsEvents
    /\ call = NoCall
    /\ \E pid \in (DOMAIN os) \ {1, current_pid} :
          /\ IsSome(os[pid])
          /\ os' = [p \in DOMAIN os |->
                      IF p = pid THEN None
                      ELSE IF IsSome(os[p]) /\ Unwrap(os[p]).parent_pid = Some(pid)
                           THEN Rec(Some(1), Unwrap(os[p]).name)
                      ELSE os[p]]
    /\ os_events' = os_events + 1
    /\ UNCHANGED <<provider, anc_provider, port_provider, root_pid, config,
                   current_pid, env_root_pid, pc, call, ret, sent>>

\* a process is started under a free pid
OsSpawn ==
    /\ os_events < MaxOsEvents
    /\ call = NoCall
    /\ \E pid \in DOMAIN os, parent \in DOMAIN os, name \in Names :
          /\ IsNone(os[pid])
          /\ IsSome(os[parent])
          /\ os' = [os EXCEPT ![pid] = Rec(Some(parent), name)]
    /\ os_events' = os_events + 1
    /\ UNCHANGED <<provider, anc_provider, port_provider, root_pid, config,
                   current_pid, env_root_pid, pc, call, ret, sent>>

(* PolicyEngine::new *)

NewProvider ==
    /\ pc = "new_provider"
    /\ provider' = os
    /\ pc' = "new_ancestry"
    /\ UNCHANGED <<os, anc_provider, port_provider, root_pid, config, current_pid,
                   env_root_pid, call, ret, sent, os_events>>

NewAncestry ==
    /\ pc = "new_ancestry"
    /\ anc_provider' = os
    /\ root_pid' = get_root_pid(os)
    /\ pc' = "new_port_detector"
    /\ UNCHANGED <<os, provider, port_provider, config, current_pid,
                   env_root_pid, call, ret, sent, os_events>>

NewPortDetector ==
    /\ pc = "new_port_detector"
    /\ port_provider' = os
    /\ pc' = "ready"
    /\ UNCHANGED <<os, provider, anc_provider, root_pid, config, current_pid,
                   env_root_pid, call, ret, sent, os_events>>

(* PolicyEngine::refresh *)

RefreshProvider ==
    /\ pc = "ready"
    /\ call = NoCall
    /\ provider' = os
    /\ pc' = "refresh_ancestry"
    /\ UNCHANGED <<os, anc_provider, port_provider, root_pid, config, current_pid,
                   env_root_pid, call, ret, sent, os_events>>

\* a refresh of the checker that resolves the trust root again
RefreshAncestryResolvesRoot ==
    /\ pc = "refresh_ancestry"
    /\ anc_provider' = os
    /\ root_pid' = get_root_pid(os)
    /\ pc' = "refresh_port_detector"
    /\ UNCHANGED <<os, provider, port_provider, config, current_pid,
                   env_root_pid, call, ret, sent, os_events>>

RefreshAncestry ==
    /\ pc = "refresh_ancestry"
    /\ anc_provider' = os
    /\ pc' = "refresh_port_detector"
    /\ UNCHANGED <<os, provider, port_provider, root_pid, config, current_pid,
                   env_root_pid, call, ret, sent, os_events>>

RefreshPortDetector ==
    /\ pc = "refresh_port_detector"
    /\ port_provider' = os
    /\ pc' = "ready"
    /\ UNCHANGED <<os, provider, anc_provider, root_pid, config, current_pid,
                   env_root_pid, call, ret, sent, os_events>>

(* The kill operations *)

\* the orders in which an iteration can meet the elements of S
Orders(S) ==
    {f \in [1..Cardinality(S) -> S] : \A i, j \in 1..Cardinality(S) : f[i] = f[j] => i = j}

\* the pids signalled by a run
SentPids(run) == {run.sends[i].pid : i \in 1..Len(run.sends)}

KillByPid ==
    /\ pc = "ready"
    /\ call = NoCall
    /\ \E pid \in (DOMAIN os) \cup {AbsentPid}, signal \in Signals, dry_run \in BOOLEAN :
        \E eperm \in SUBSET SentPids(kill_by_pid(pid, signal, dry_run, {})) :
          /\ call' = [fn |-> "kill_by_pid", pid |-> pid, signal |-> signal,
                      dry_run |-> dry_run, eperm |-> eperm]
          /\ ret' = kill_by_pid(pid, signal, dry_run, eperm).ret
          /\ sent' = kill_by_pid(pid, signal, dry_run, eperm).sends
    /\ UNCHANGED <<os, provider, anc_provider, port_provider, root_pid, config,
                   current_pid, env_root_pid, pc, os_events>>

KillByName ==
    /\ pc = "ready"
    /\ call = NoCall
    /\ \E name \in Names \cup {"c"}, signal \in Signals, dry_run \in BOOLEAN :
        \E order \in Orders({p \in DOMAIN provider : IsSome(provider[p])
                                            /\ Unwrap(provider[p]).name = name}) :
        \E eperm \in SUBSET SentPids(kill_by_name(name, signal, dry_run, order, {})) :
          /\ call' = [fn |-> "kill_by_name", name |-> name, signal |-> signal,
                      dry_run |-> dry_run, order |-> order, eperm |-> eperm]
          /\ ret' = kill_by_name(name, signal, dry_run, order, eperm).ret
          /\ sent' = kill_by_name(name, signal, dry_run, order, eperm).sends
    /\ UNCHANGED <<os, provider, anc_provider, port_provider, root_pid, config,
                   current_pid, env_root_pid, pc, os_events>>

\* what get_sockets_info can yield for a port: a failure, or up to two
\* associated pids in any order, the same pid twice included
SocketsChoices ==
    {Err("netstat")} \cup {Ok(<<>>)} \cup {Ok(<<p>>) : p \in (DOMAIN os) \cup {AbsentPid}}
        \cup {Ok(<<p, q>>) : p \in DOMAIN os, q \in (DOMAIN os) \cup {AbsentPid}}

KillByPort ==
    /\ pc = "ready"
    /\ call = NoCall
    /\ \E port \in Ports, signal \in Signals, dry_run \in BOOLEAN,
          sockets \in SocketsChoices :
        \E eperm \in SUBSET SentPids(kill_by_port(port, signal, dry_run, sockets, {})) :
          /\ call' = [fn |-> "kill_by_port", port |-> port, signal |-> signal,
                      dry_run |-> dry_run, sockets |-> sockets, eperm |-> eperm]
          /\ ret' = kill_by_port(port, signal, dry_run, sockets, eperm).ret
          /\ sent' = kill_by_port(port, signal, dry_run, sockets, eperm).sends
    /\ UNCHANGED <<os, provider, anc_provider, port_provider, root_pid, config,
                   current_pid, env_root_pid, pc, os_events>>

\* AncestryChecker::is_suicide of the engine's checker
IsSuicide ==
    /\ pc = "ready"
    /\ call = NoCall
    /\ \E target_pid \in (DOMAIN os) \cup {AbsentPid} :
          /\ call' = [fn |-> "is_suicide", target_pid |-> target_pid]
          /\ ret' = [kind |-> "bool", value |-> is_suicide(target_pid)]
    /\ UNCHANGED <<os, provider, anc_provider, port_provider, root_pid, config,
                   current_pid, env_root_pid, pc, sent, os_events>>

ListKillable ==
    /\ pc = "ready"
    /\ call = NoCall
    /\ \E order \in Orders({p \in DOMAIN provider : IsSome(provider[p])}) :
          /\ call' = [fn |-> "list_killable", order |-> order]
          /\ ret' = [kind |-> "list", value |-> list_killable(order)]
    /\ UNCHANGED <<os, provider, anc_provider, port_provider, root_pid, config,
                   current_pid, env_root_pid, pc, sent, os_events>>

\* the caller takes the result
Return ==
    /\ pc = "ready"
    /\ call # NoCall
    /\ call' = NoCall
    /\ ret' = NoRet
    /\ sent' = <<>>
    /\ UNCHANGED <<os, provider, anc_provider, port_provider, root_pid, config,
                   current_pid, env_root_pid, pc, os_events>>

Next ==
    \/ OsExit
    \/ OsSpawn
    \/ NewProvider
    \/ NewAncestry
    \/ NewPortDetector
    \/ RefreshProvider
    \/ RefreshAncestry
    \/ RefreshPortDetector
    \/ KillByPid
    \/ KillByName
    \/ KillByPort
    \/ IsSuicide
    \/ ListKillable
    \/ Return

Spec == Init /\ [][Next]_vars

----------------------------------------------------------------------------
(* Claims about the kill operations (Spec) *)

KillCalled == call.fn \in {"kill_by_pid", "kill_by_name", "kill_by_port"}

\* the pids send was invoked with during the latest call
SignalledPids == {sent[i].pid : i \in 1..Len(sent)}

\* the name the operation called resolves for the candidate pid: the one of the
\* engine's snapshot; kill_by_port falls back on the detector's snapshot and
\* then on "pid:<pid>"
ResolvedName(pid) ==
    IF IsSome(get(provider, pid)) THEN Unwrap(get(provider, pid)).name
    ELSE IF IsSome(get(port_provider, pid)) THEN Unwrap(get(port_provider, pid)).name
    ELSE "pid:" \o ToString(pid)

\* pid is a candidate of the latest call
IsCandidate(pid) ==
    CASE call.fn = "kill_by_pid" -> pid = call.pid /\ IsSome(get(provider, pid))
      [] call.fn = "kill_by_name" ->
            IsSome(get(provider, pid)) /\ Unwrap(get(provider, pid)).name = call.name
      [] call.fn = "kill_by_port" ->
            /\ call.sockets.ok
            /\ \E i \in 1..Len(call.sockets.value) : call.sockets.value[i] = pid
      [] OTHER -> FALSE

\* the verdict of the predicate chain of the latest call's operation allows
\* the candidate (pid, name)
VerdictAllows(pid, name) ==
    /\ ~SuicideTarget(pid)
    /\ ~InDenySet(name)
    /\ call.fn = "kill_by_port" \/ InAllowSet(name) \/ DescendantOfTrustRoot(pid)

\* C1: whatever the calls made so far, their signals, rule set and trust root,
\* send is never invoked with the tool's own pid nor with the pid the snapshot
\* of the ancestry checker records as the tool's direct parent.
C1_NoSuicide ==
    KillCalled =>
        \A pid \in SignalledPids : pid # current_pid /\ ~SuicideTarget(pid)

\* C1 witness: a real kill_by_port whose listeners are the tool's allowlisted
\* direct parent and another process; send was invoked, for the other only
C1_Witness ==
    /\ call.fn = "kill_by_port"
    /\ ~call.dry_run
    /\ call.sockets.ok
    /\ Len(call.sockets.value) = 2
    /\ ParentOf(anc_provider, current_pid) = Some(call.sockets.value[1])
    /\ InAllowSet(ResolvedName(call.sockets.value[1]))
    /\ ~InDenySet(ResolvedName(call.sockets.value[1]))
    /\ SignalledPids = {call.sockets.value[2]}

\* C6: send is invoked only for candidates of the call whose own verdict
\* allows them; no candidate whose name is in the deny set is signalled,
\* wherever it stands in the batch.
C6_SendOnlyAllowed ==
    KillCalled =>
        \A pid \in SignalledPids :
            /\ IsCandidate(pid)
            /\ VerdictAllows(pid, ResolvedName(pid))
            /\ ~InDenySet(ResolvedName(pid))

\* C6 witness: a real kill_by_port on two owners; the first is denylisted (and
\* no suicide target) and was not signalled, the second was signalled
C6_Witness ==
    /\ call.fn = "kill_by_port"
    /\ ~call.dry_run
    /\ ret.ok
    /\ Len(ret.value.results) = 2
    /\ InDenySet(ret.value.results[1].name)
    /\ ~SuicideTarget(ret.value.results[1].pid)
    /\ SignalledPids = {ret.value.results[2].pid}

\* the latest call made with the other value of dry_run
OtherRun ==
    CASE call.fn = "kill_by_pid" ->
            kill_by_pid(call.pid, call.signal, ~call.dry_run, call.eperm)
      [] call.fn = "kill_by_name" ->
            kill_by_name(call.name, call.signal, ~call.dry_run, call.order, call.eperm)
      [] call.fn = "kill_by_port" ->
            kill_by_port(call.port, call.signal, ~call.dry_run, call.sockets, call.eperm)

\* the entry of a batch is the one of a denied candidate
DeniedEntry(result) == ~VerdictAllows(result.pid, result.name)

\* C7: a dry run invokes send not once; a denied candidate has the same
\* outcome for both values of dry_run: the same error from kill_by_pid, the
\* same failed entry at the same place of a batch of the same total_matched,
\* and the same batch altogether when every candidate is denied.
C7_DryRun ==
    KillCalled =>
        LET other == OtherRun.ret IN
        /\ call.dry_run => sent = <<>>
        /\ ret.ok = other.ok
        /\ ~ret.ok => ret = other
        /\ ( /\ call.fn = "kill_by_pid"
             /\ IsCandidate(call.pid)
             /\ ~VerdictAllows(call.pid, ResolvedName(call.pid)) )
                => ( /\ ~ret.ok
                     /\ ret.error.type \in {"Denylisted", "NotDescendant",
                                            "SuicidePrevention"} )
        /\ (call.fn # "kill_by_pid" /\ ret.ok)
                => LET denied == {i \in 1..Len(ret.value.results) :
                                     DeniedEntry(ret.value.results[i])} IN
                   /\ ret.value.total_matched = other.value.total_matched
                   /\ Len(ret.value.results) = Len(other.value.results)
                   /\ \A i \in denied :
                         /\ ~ret.value.results[i].success
                         /\ ret.value.results[i] = other.value.results[i]
                   /\ denied = 1..Len(ret.value.results)
                         => /\ ret = other
                            /\ ret.value.total_killed = 0

\* C7 witness: a dry run of kill_by_name on two processes, one denied and one
\* allowed: nothing was sent, and the real run would have sent
C7_Witness ==
    /\ call.fn = "kill_by_name"
    /\ call.dry_run
    /\ ret.ok
    /\ Len(ret.value.results) = 2
    /\ \E i \in 1..2 : DeniedEntry(ret.value.results[i])
    /\ sent = <<>>
    /\ OtherRun.sends # <<>>

----------------------------------------------------------------------------
(* Specification SpecChain: the engine started by a tool that has a         *)
(* grandparent other than pid 1, so that the exit of its parent or of its   *)
(* grandparent changes what a new resolution of the trust root would give.  *)
(* The operations are those of Spec.                                        *)

ChainPids == 1..(MaxPid + 1)

\* the tool is the highest pid; its parent is not pid 1
ChainTables ==
    {t \in [ChainPids -> {None} \cup {Rec(Some(q), "b") : q \in ChainPids}
                                \cup {Rec(None, "a")}] :
        /\ t[1] = Rec(None, "a")
        /\ \A p \in ChainPids \ {1} :
              IsSome(t[p]) =>
                  /\ IsSome(Unwrap(t[p]).parent_pid)
                  /\ Unwrap(Unwrap(t[p]).parent_pid) < p
                  /\ IsSome(t[Unwrap(Unwrap(t[p]).parent_pid)])
        /\ IsSome(t[MaxPid + 1])
        /\ Unwrap(t[MaxPid + 1]).parent_pid # Some(1)}

ChainConfigs ==
    {[allowlist |-> None, denylist |-> Some({"a"}), allowed_ports |-> Some(PortSpecs)],
     [allowlist |-> Some({"b"}), denylist |-> None, allowed_ports |-> None],
     [allowlist |-> None, denylist |-> None, allowed_ports |-> Some(PortSpecs)]}

InitChain ==
    /\ os \in ChainTables
    /\ current_pid = MaxPid + 1
    /\ config \in ChainConfigs
    /\ env_root_pid = None
    /\ provider = [p \in ChainPids |-> None]
    /\ anc_provider = [p \in ChainPids |-> None]
    /\ port_provider = [p \in ChainPids |-> None]
    /\ root_pid = 0
    /\ pc = "new_provider"
    /\ call = NoCall
    /\ ret = NoRet
    /\ sent = <<>>
    /\ os_events = 0

SpecChain == InitChain /\ [][Next]_vars

----------------------------------------------------------------------------
(* Specification SpecRoot: AncestryChecker::new on any snapshot of          *)
(* 1..PolPids (records and parents may be missing), for every pid of the    *)
(* tool and the values of SAFE_KILL_ROOT_PID listed.                        *)

\* SAFE_KILL_ROOT_PID: unset, or one of these strings
EnvValues ==
    {None, Some(<<"2">>), Some(<<"4">>), Some(<<"0">>), Some(<<"+", "3">>),
     Some(<<"0", "0", "2">>), Some(<<"x">>), Some(<<>>), Some(<<" ", "2">>),
     Some(<<"-", "2">>), Some(<<"2", "x">>),
     Some(<<"4", "2", "9", "4", "9", "6", "7", "2", "9", "6">>)}

InitRoot ==
    /\ os \in PolicySnapshots
    /\ current_pid \in 1..PolPids
    /\ env_root_pid \in EnvValues
    /\ config = [allowlist |-> None, denylist |-> None, allowed_ports |-> None]
    /\ provider = os
    /\ anc_provider = [p \in 1..PolPids |-> None]
    /\ port_provider = [p \in 1..PolPids |-> None]
    /\ root_pid = 0
    /\ pc = "new_ancestry"
    /\ call = NoCall
    /\ ret = NoRet
    /\ sent = <<>>
    /\ os_events = 0

NextRoot == NewAncestry

SpecRoot == InitRoot /\ [][NextRoot]_vars

----------------------------------------------------------------------------
(* Claims about the checker of the engine: is_suicide, the trust root *)

\* the pid the value of SAFE_KILL_ROOT_PID names, if it names one: a decimal
\* number, with leading zeros or a plus sign at most
OverridePid ==
    CASE env_root_pid = Some(<<"2">>) -> Some(2)
      [] env_root_pid = Some(<<"4">>) -> Some(4)
      [] env_root_pid = Some(<<"0">>) -> Some(0)
      [] env_root_pid = Some(<<"+", "3">>) -> Some(3)
      [] env_root_pid = Some(<<"0", "0", "2">>) -> Some(2)
      [] OTHER -> None

\* the trust root the priority order gives on the snapshot snap
ExpectedRoot(snap) ==
    IF IsSome(OverridePid) THEN Unwrap(OverridePid)
    ELSE IF IsNone(ParentOf(snap, current_pid)) THEN current_pid
    ELSE IF IsNone(ParentOf(snap, Unwrap(ParentOf(snap, current_pid))))
         THEN Unwrap(ParentOf(snap, current_pid))
    ELSE Unwrap(ParentOf(snap, Unwrap(ParentOf(snap, current_pid))))

IsSuicideCalled == call.fn = "is_suicide"

\* C11: is_suicide(target) is true exactly when target is the tool's own pid or
\* the parent that the checker's snapshot held at the time of the call records
\* for the tool, and false for every other pid.
C11_IsSuicide ==
    IsSuicideCalled =>
        ret.value = ( \/ call.target_pid = current_pid
                      \/ ParentOf(anc_provider, current_pid) = Some(call.target_pid) )

\* C11 witness: the tool's parent changed and the checker was refreshed (its
\* snapshot no longer gives the trust root resolved at construction); the call
\* on the newly recorded parent, which is not the trust root, returned true
C11_Witness ==
    /\ IsSuicideCalled
    /\ root_pid # ExpectedRoot(anc_provider)
    /\ ParentOf(anc_provider, current_pid) = Some(call.target_pid)
    /\ ParentOf(provider, current_pid) = Some(call.target_pid)
    /\ call.target_pid # root_pid
    /\ ret.value = TRUE

C12_WitnessParent ==
    /\ pc = "new_port_detector"
    /\ IsNone(OverridePid)
    /\ IsSome(ParentOf(anc_provider, current_pid))
    /\ IsNone(get(anc_provider, Unwrap(ParentOf(anc_provider, current_pid))))
    /\ root_pid = Unwrap(ParentOf(anc_provider, current_pid))

C12_WitnessOwnPid ==
    /\ pc = "new_port_detector"
    /\ IsNone(OverridePid)
    /\ IsNone(get(anc_provider, current_pid))
    /\ root_pid = current_pid

\* C13: once the checker is constructed no step changes root_pid: the only
\* step that sets it is the one of the construction.
C13_RootFixed == [][root_pid' # root_pid => pc = "new_ancestry"]_vars

\* C13 witness: the engine is ready after a refresh whose snapshot would give
\* another trust root than the one kept
C13_Witness ==
    /\ pc = "ready"
    /\ call = NoCall
    /\ provider = os
    /\ anc_provider = os
    /\ port_provider = os
    /\ os_events > 0
    /\ root_pid # ExpectedRoot(anc_provider)

----------------------------------------------------------------------------
(* Claims about the results of the kill operations (Spec) *)

\* the error of the rule that blocks the candidate (pid, name) of a pid- or
\* name-scoped operation
BlockingRule(pid, name) ==
    IF SuicideTarget(pid) THEN SuicidePrevention(pid)
    ELSE IF InDenySet(name) THEN Denylisted(name)
    ELSE NotDescendant(pid, name)

\* the same for an owner of a port: suicide prevention and denylist only
PortBlockingRule(pid, name) ==
    IF SuicideTarget(pid) THEN SuicidePrevention(pid) ELSE Denylisted(name)

\* the ports of the configured list PortSpecs: "80" and "90-91" ("x" is none)
ConfiguredPorts == IF IsSome(config.allowed_ports) THEN {80, 90, 91} ELSE {}

\* the candidates of the latest batch call, once they are resolved
Candidates == {pid \in (DOMAIN os) \cup {AbsentPid} : IsCandidate(pid)}

CandidatesResolved ==
    \/ call.fn = "kill_by_name"
    \/ call.fn = "kill_by_port" /\ call.port \in ConfiguredPorts /\ call.sockets.ok

\* C14: kill_by_pid on a pid without a record in the engine's snapshot returns
\* ProcessNotFound(pid) and sends nothing, for both values of dry_run, also when
\* the pid is a suicide target or the trust root.
C14_PidNotFound ==
    (call.fn = "kill_by_pid" /\ IsNone(get(provider, call.pid)))
        => /\ ret = Err(ProcessNotFound(call.pid))
           /\ sent = <<>>

\* C14 witness: a real kill_by_pid on the trust root, which has no record, and
\* an allowlist is configured
C14_Witness ==
    /\ call.fn = "kill_by_pid"
    /\ ~call.dry_run
    /\ call.pid = root_pid
    /\ IsNone(get(provider, call.pid))
    /\ IsSome(config.allowlist)
    /\ ret = Err(ProcessNotFound(call.pid))

\* C15: kill_by_pid on an existing record returns Ok exactly when the verdict
\* allows the process; a denial is the error of its blocking rule:
\* SuicidePrevention(pid), Denylisted(name) or NotDescendant(pid, name).
C15_TypedDenial ==
    (call.fn = "kill_by_pid" /\ IsSome(get(provider, call.pid)))
        => IF VerdictAllows(call.pid, ResolvedName(call.pid))
           THEN ret.ok
           ELSE ret = Err(BlockingRule(call.pid, ResolvedName(call.pid)))

\* C15 witness: a process in neither list that is no descendant of the trust
\* root got NotDescendant with its pid and name
C15_Witness ==
    /\ call.fn = "kill_by_pid"
    /\ IsSome(get(provider, call.pid))
    /\ IsSome(config.denylist)
    /\ ~ret.ok
    /\ ret.error = NotDescendant(call.pid, ResolvedName(call.pid))

\* C15 witnesses of the other outcomes
C15_WitnessDenylisted ==
    /\ call.fn = "kill_by_pid"
    /\ ~ret.ok
    /\ ret.error.type = "Denylisted"
    /\ InAllowSet(ret.error.name)

C15_WitnessOk ==
    /\ call.fn = "kill_by_pid"
    /\ ret.ok
    /\ ~DescendantOfTrustRoot(call.pid)

\* C16: kill_by_name without a process of that name returns the NotFound
\* error; with N >= 1 processes of a denylisted name it returns Ok with
\* total_matched = N and total_killed = 0 and sends nothing.
C16_NameBatch ==
    call.fn = "kill_by_name"
        => /\ Candidates = {} => (~ret.ok /\ ret.error.type = "ProcessNotFound")
           /\ (Candidates # {} /\ InDenySet(call.name))
                => /\ ret.ok
                   /\ ret.value.total_matched = Cardinality(Candidates)
                   /\ ret.value.total_killed = 0
                   /\ sent = <<>>

\* C16 witness: a real run on two processes of a denylisted name, one of them
\* no suicide target
C16_Witness ==
    /\ call.fn = "kill_by_name"
    /\ ~call.dry_run
    /\ InDenySet(call.name)
    /\ Cardinality(Candidates) = 2
    /\ \E pid \in Candidates : ~SuicideTarget(pid)
    /\ ret.ok
    /\ ret.value.total_matched = 2
    /\ ret.value.total_killed = 0

C16_WitnessNotFound ==
    /\ call.fn = "kill_by_name"
    /\ Candidates = {}
    /\ ~ret.ok

\* C17: a batch operation whose candidates are resolved (for kill_by_port: the
\* port is allowed and the owners were found out) returns Ok with exactly one
\* entry per candidate when there is a candidate, a denied candidate being a
\* failed entry with the message of its own blocking rule, and an error when
\* there is none; an Ok batch is never empty.
C17_BatchEntries ==
    call.fn \in {"kill_by_name", "kill_by_port"}
        => /\ (CandidatesResolved /\ Candidates # {})
                => /\ ret.ok
                   /\ Len(ret.value.results) = Cardinality(Candidates)
                   /\ {ret.value.results[i].pid : i \in 1..Len(ret.value.results)}
                         = Candidates
                   /\ \A i \in 1..Len(ret.value.results) :
                         LET r == ret.value.results[i] IN
                         /\ r.name = ResolvedName(r.pid)
                         /\ DeniedEntry(r)
                              => /\ ~r.success
                                 /\ r.message =
                                      to_string(IF call.fn = "kill_by_port"
                                                THEN PortBlockingRule(r.pid, r.name)
                                                ELSE BlockingRule(r.pid, r.name))
           /\ (CandidatesResolved /\ Candidates = {}) => ~ret.ok
           /\ ret.ok => ret.value.results # <<>>

\* C17 witness: a real kill_by_name on two processes; the tool's parent is a
\* failed entry of suicide prevention, the other process was signalled
C17_Witness ==
    /\ call.fn = "kill_by_name"
    /\ ~call.dry_run
    /\ ret.ok
    /\ Len(ret.value.results) = 2
    /\ \E i \in 1..2 :
          /\ ret.value.results[i].pid # current_pid
          /\ ~ret.value.results[i].success
          /\ ret.value.results[i].message =
                to_string(SuicidePrevention(ret.value.results[i].pid))
          /\ SignalledPids = {ret.value.results[3 - i].pid}

\* C17 witness for kill_by_port: a denylisted owner is a failed entry of the
\* denylist, the other owner was signalled
C17_WitnessPort ==
    /\ call.fn = "kill_by_port"
    /\ ~call.dry_run
    /\ ret.ok
    /\ Len(ret.value.results) = 2
    /\ \E i \in 1..2 :
          /\ ~ret.value.results[i].success
          /\ ret.value.results[i].message =
                to_string(Denylisted(ret.value.results[i].name))
          /\ SignalledPids = {ret.value.results[3 - i].pid}

\* C18: without allowed_ports kill_by_port returns PortNotAllowed for the port
\* and sends nothing, whatever the listeners, dry_run and the lists.
C18_PortsOptIn ==
    (call.fn = "kill_by_port" /\ IsNone(config.allowed_ports))
        => /\ ~ret.ok
           /\ ret.error.type = "PortNotAllowed"
           /\ ret.error.port = call.port
           /\ sent = <<>>

\* C18 witness: a real run on a port with two listeners, one of them allowed by
\* every other rule, with an allowlist and no denylist
C18_Witness ==
    /\ call.fn = "kill_by_port"
    /\ IsNone(config.allowed_ports)
    /\ ~call.dry_run
    /\ call.sockets.ok
    /\ Len(call.sockets.value) = 2
    /\ \E i \in 1..2 : /\ ~SuicideTarget(call.sockets.value[i])
                       /\ IsSome(get(os, call.sockets.value[i]))
    /\ IsSome(config.allowlist)
    /\ IsNone(config.denylist)
    /\ ~ret.ok

\* C19: kill_by_port checks the port first, then looks for the owners, then
\* judges them: a port outside the configured ranges gives PortNotAllowed with
\* the hint that names the port, whatever listens on it or whether the lookup
\* fails; an allowed port gives the detection error when the lookup fails and
\* NoProcessOnPort(port) when nothing owns it, for both values of dry_run.
C19_PortOrder ==
    call.fn = "kill_by_port"
        => /\ call.port \notin ConfiguredPorts
                => /\ ret = Err([type |-> "PortNotAllowed", port |-> call.port,
                                 hint |-> "Add " \o ToString(call.port)
                                    \o " to [allowed_ports] in config.toml or run 'safe-kill init' to create a config file"])
                   /\ sent = <<>>
           /\ (call.port \in ConfiguredPorts /\ ~call.sockets.ok)
                => /\ ~ret.ok
                   /\ ret.error.type = "PortDetectionError"
                   /\ sent = <<>>
           /\ (call.port \in ConfiguredPorts /\ call.sockets.ok
                    /\ call.sockets.value = <<>>)
                => /\ ret = Err(NoProcessOnPort(call.port))
                   /\ sent = <<>>

\* C19 witness: ports are configured, the port is outside them, and a process
\* that the predicate would allow listens on it
C19_Witness ==
    /\ call.fn = "kill_by_port"
    /\ IsSome(config.allowed_ports)
    /\ call.port \notin ConfiguredPorts
    /\ call.sockets.ok
    /\ \E i \in 1..Len(call.sockets.value) :
          /\ ~SuicideTarget(call.sockets.value[i])
          /\ ~InDenySet(ResolvedName(call.sockets.value[i]))
    /\ ~ret.ok
    /\ ret.error.type = "PortNotAllowed"

C19_WitnessNoProcess ==
    /\ call.fn = "kill_by_port"
    /\ call.port \in ConfiguredPorts
    /\ call.dry_run
    /\ ret = Err(NoProcessOnPort(call.port))

\* C20: the predicate for the owners of a port is suicide prevention, then the
\* denylist, then Allowed, whatever the allow set and the trust root: in a
\* batch of kill_by_port a suicide target is the failed entry of suicide
\* prevention, any other owner of a denylisted name the failed entry of the
\* denylist, and every other owner is signalled in a real run and reported as
\* "would send" in a dry run.
C20_PortPredicate ==
    (call.fn = "kill_by_port" /\ ret.ok)
        => \A i \in 1..Len(ret.value.results) :
              LET r == ret.value.results[i] IN
              IF SuicideTarget(r.pid)
              THEN /\ r.message = to_string(SuicidePrevention(r.pid))
                   /\ r.pid \notin SignalledPids
              ELSE IF InDenySet(r.name)
              THEN /\ r.message = to_string(Denylisted(r.name))
                   /\ r.pid \notin SignalledPids
              ELSE IF call.dry_run
              THEN r = KillResult_dry_run(r.pid, r.name, call.signal)
              ELSE r.pid \in SignalledPids

\* C20 witness: a real run signalled an owner that is no descendant of the
\* trust root and not allowlisted, while an allowlist is configured
C20_Witness ==
    /\ call.fn = "kill_by_port"
    /\ ~call.dry_run
    /\ ret.ok
    /\ IsSome(config.allowlist)
    /\ \E pid \in SignalledPids :
          /\ IsSome(get(os, pid))
          /\ ~DescendantOfTrustRoot(pid)
          /\ ~InAllowSet(ResolvedName(pid))

----------------------------------------------------------------------------
(* Specification SpecConfig: Config::load_from_path on every kind of file,  *)
(* then PortRange::parse, PortRange::contains and Config::is_port_allowed   *)
(* on the loaded configuration. toml::from_str is taken by its result: an   *)
(* error, or the Config the text deserializes to. The lists of process      *)
(* names are sets, as everywhere: the code asks for membership only.        *)

\* Config::default_denylist on Linux
default_denylist ==
    {"systemd", "init", "kthreadd", "dbus-daemon", "gnome-shell", "Xorg", "sshd"}

\* Config::with_defaults
with_defaults ==
    [allowlist |-> None, denylist |-> Some(default_denylist), allowed_ports |-> None]

\* merge_defaults that leaves the configuration as the file gives it
merge_defaults_keeps_file(cfg) == cfg

\* Config::merge_defaults
merge_defaults(cfg) ==
    IF IsNone(cfg.denylist)
    THEN [cfg EXCEPT !.denylist = Some(default_denylist)]
    ELSE cfg

\* Config::load_from_path. path is None or Some of a file: whether it exists,
\* what fs::read_to_string gives, what toml::from_str gives for the content.
load_from_path(path) ==
    IF IsNone(path) THEN with_defaults
    ELSE IF ~Unwrap(path).exists THEN with_defaults
    ELSE IF ~Unwrap(path).read.ok THEN with_defaults
    ELSE IF ~Unwrap(path).read.value.ok THEN with_defaults
    ELSE merge_defaults(Unwrap(path).read.value.value)

\* the port specifications of the files
FileSpecs ==
    { <<"8", "0">>, <<"x">>, <<"9", "0", "-", "9", "1">>,
      <<"9", "1", "-", "9", "0">>, <<" ", "7", "9", " ">> }

\* the sequences over S of length at most n
SeqsUpTo(S, n) == UNION {[1..k -> S] : k \in 0..n}

\* the longest list of port specifications of a file
MaxPortSpecs == 2

\* what a file that parses deserializes to
FileConfigs ==
    {[allowlist |-> al, denylist |-> dl, allowed_ports |-> ap] :
        al \in OptionOf({{"a"}}), dl \in OptionOf({{}, {"b"}}),
        ap \in OptionOf(SeqsUpTo(FileSpecs, MaxPortSpecs))}

\* no path, a path without file, a file that cannot be read, a file that is
\* not valid TOML (or not a Config), a file that parses
ConfigPaths ==
    {None,
     Some([exists |-> FALSE, read |-> Err("NotFound")]),
     Some([exists |-> TRUE, read |-> Err("PermissionDenied")]),
     Some([exists |-> TRUE, read |-> Ok(Err("TomlError"))])}
        \cup {Some([exists |-> TRUE, read |-> Ok(Ok(cfg))]) : cfg \in FileConfigs}

\* the longest generated argument of PortRange::parse
MaxSpecLen == 3

\* the arguments of PortRange::parse: every string of at most MaxSpecLen of
\* these characters, and the strings of the tests
ParseArgs ==
    SeqsUpTo({"1", "5", "-", " ", "x", "+"}, MaxSpecLen)
        \cup FileSpecs
        \cup { <<"3", "0", "0", "0", "-", "3", "1", "0", "0">>,
               <<" ", "3", "0", "0", "0", " ", "-", " ", "3", "1", "0", "0", " ">>,
               <<"1", "0", "0", "-", "5", "0">>,
               <<"a", "b", "c">>,
               <<"1", "2", "3", "-", "a", "b", "c">>,
               <<"a", "b", "c", "-", "4", "5", "6">>,
               <<"1", "-", "2", "-", "3">>,
               <<"3", "3", "0", "6">>,
               <<"6", "5", "5", "3", "5">>,
               <<"6", "5", "5", "3", "6">>,
               <<"0", "-", "6", "5", "5", "3", "5">>,
               <<"0", "-", "6", "5", "5", "3", "6">>,
               <<"0", "0", "8", "0">> }

\* the ports asked for
AskedPorts == {0, 1, 4, 5, 6, 15, 79, 80, 90, 91, 92, 2999, 3000, 3050, 3100, 3101, 65535}

InitConfig ==
    /\ os = [p \in 1..1 |-> Rec(None, "a")]
    /\ current_pid = 1
    /\ env_root_pid = None
    /\ config = [allowlist |-> None, denylist |-> None, allowed_ports |-> None]
    /\ provider = os
    /\ anc_provider = os
    /\ port_provider = os
    /\ root_pid = 0
    /\ pc = "load"
    /\ call = NoCall
    /\ ret = NoRet
    /\ sent = <<>>
    /\ os_events = 0

LoadFromPath ==
    /\ pc = "load"
    /\ \E path \in ConfigPaths :
          /\ config' = load_from_path(path)
          /\ call' = [fn |-> "load_from_path", path |-> path]
    /\ pc' = "loaded"
    /\ UNCHANGED <<os, provider, anc_provider, port_provider, root_pid,
                   current_pid, env_root_pid, ret, sent, os_events>>

ParsePortRange ==
    /\ pc = "loaded"
    /\ call = NoCall
    /\ \E spec \in ParseArgs :
          /\ call' = [fn |-> "PortRange::parse", spec |-> spec]
          /\ ret' = PortRange_parse(spec)
    /\ UNCHANGED <<os, provider, anc_provider, port_provider, root_pid, config,
                   current_pid, env_root_pid, pc, sent, os_events>>

ContainsPort ==
    /\ pc = "loaded"
    /\ call = NoCall
    /\ \E spec \in ParseArgs, port \in AskedPorts :
          /\ PortRange_parse(spec).ok
          /\ call' = [fn |-> "PortRange::contains",
                      range |-> PortRange_parse(spec).value, port |-> port]
          /\ ret' = [kind |-> "bool",
                     value |-> PortRange_contains(PortRange_parse(spec).value, port)]
    /\ UNCHANGED <<os, provider, anc_provider, port_provider, root_pid, config,
                   current_pid, env_root_pid, pc, sent, os_events>>

IsPortAllowed ==
    /\ pc = "loaded"
    /\ call = NoCall
    /\ \E port \in AskedPorts :
          /\ call' = [fn |-> "is_port_allowed", port |-> port]
          /\ ret' = [kind |-> "bool", value |-> is_port_allowed(port)]
    /\ UNCHANGED <<os, provider, anc_provider, port_provider, root_pid, config,
                   current_pid, env_root_pid, pc, sent, os_events>>

\* the caller takes the result
ReturnConfig ==
    /\ pc = "loaded"
    /\ call # NoCall
    /\ call' = NoCall
    /\ ret' = NoRet
    /\ UNCHANGED <<os, provider, anc_provider, port_provider, root_pid, config,
                   current_pid, env_root_pid, pc, sent, os_events>>

NextConfig ==
    \/ LoadFromPath
    \/ ParsePortRange
    \/ ContainsPort
    \/ IsPortAllowed
    \/ ReturnConfig

SpecConfig == InitConfig /\ [][NextConfig]_vars

----------------------------------------------------------------------------
(* Claims about the configuration (SpecConfig) *)

\* str without the spaces at its two ends
Stripped(str) ==
    LET inner == {i \in 1..Len(str) : str[i] # " "} IN
    IF inner = {} THEN <<>>
    ELSE SubSeq(str, CHOOSE i \in inner : \A j \in inner : i <= j,
                     CHOOSE i \in inner : \A j \in inner : i >= j)

\* the number a string of decimal digits writes
RECURSIVE Decimal(_)
Decimal(str) ==
    IF str = <<>> THEN 0
    ELSE Decimal(SubSeq(str, 1, Len(str) - 1)) * 10 + DigitValue[str[Len(str)]]

\* str without the plus sign it may start with
Unsigned(str) == IF str # <<>> /\ str[1] = "+" THEN SubSeq(str, 2, Len(str)) ELSE str

\* str writes a port number: decimal digits, at least one, a plus sign before
\* them at most, and a value of 16 bits
IsPortNumber(str) ==
    /\ Unsigned(str) # <<>>
    /\ \A i \in 1..Len(Unsigned(str)) : Unsigned(str)[i] \in DOMAIN DigitValue
    /\ Len(Unsigned(str)) <= 9
    /\ Decimal(Unsigned(str)) <= 65535

PortNumber(str) == Decimal(Unsigned(str))

\* the places of '-' in str
Dashes(str) == {i \in 1..Len(str) : str[i] = "-"}

\* what parse is to give for the specification raw: "N" is Single(N), "A-B"
\* with A <= B is Range, everything else an error
ExpectedRange(raw) ==
    LET str == Stripped(raw)
        dashes == Dashes(str)
    IN  IF dashes = {}
        THEN IF IsPortNumber(str) THEN Some(Single(PortNumber(str))) ELSE None
        ELSE IF Cardinality(dashes) > 1 THEN None
        ELSE LET at == CHOOSE i \in dashes : TRUE
                 a == Stripped(SubSeq(str, 1, at - 1))
                 b == Stripped(SubSeq(str, at + 1, Len(str)))
             IN  IF IsPortNumber(a) /\ IsPortNumber(b) /\ PortNumber(a) <= PortNumber(b)
                 THEN Some(Range(PortNumber(a), PortNumber(b)))
                 ELSE None

\* the ports a parsed range covers, both ends included
Covers(range, port) ==
    \/ range.kind = "Single" /\ port = range.port
    \/ range.kind = "Range" /\ range.start <= port /\ port <= range.end

\* C21: parse gives Single(N) for "N" and Range(A, B) for "A-B" with A <= B, and
\* an InvalidPortRange error for start > end, for a part that is no number and
\* for more than one '-'; a parsed Range has start <= end; contains(port) is
\* true exactly for the port of a Single and for start <= port <= end of a Range.
C21_PortRange ==
    /\ call.fn = "PortRange::parse" =>
          /\ IsSome(ExpectedRange(call.spec)) =>
                ret = Ok(Unwrap(ExpectedRange(call.spec)))
          /\ IsNone(ExpectedRange(call.spec)) =>
                ~ret.ok /\ ret.error.type = "InvalidPortRange"
          /\ (ret.ok /\ ret.value.kind = "Range") => ret.value.start <= ret.value.end
    /\ call.fn = "PortRange::contains" =>
          /\ call.range.kind = "Range" => call.range.start <= call.range.end
          /\ ret.value = Covers(call.range, call.port)

\* C21 witness: "100-50" was refused
C21_Witness ==
    /\ call.fn = "PortRange::parse"
    /\ call.spec = <<"1", "0", "0", "-", "5", "0">>
    /\ ~ret.ok

\* C21 witnesses: " 3000 - 3100 " parsed to the range 3000..3100; the range
\* holds its upper end 3100 and not 3101; "1-2-3" and "65536" were refused
C21_WitnessRange ==
    /\ call.fn = "PortRange::parse"
    /\ call.spec = <<" ", "3", "0", "0", "0", " ", "-", " ", "3", "1", "0", "0", " ">>
    /\ ret = Ok(Range(3000, 3100))

C21_WitnessUpperEnd ==
    /\ call.fn = "PortRange::contains"
    /\ call.range = Range(3000, 3100)
    /\ call.port = 3100
    /\ ret.value = TRUE

C21_WitnessPastEnd ==
    /\ call.fn = "PortRange::contains"
    /\ call.range = Range(3000, 3100)
    /\ call.port = 3101
    /\ ret.value = FALSE

C21_WitnessTwoDashes ==
    /\ call.fn = "PortRange::parse"
    /\ call.spec = <<"1", "-", "2", "-", "3">>
    /\ ~ret.ok

C21_WitnessOverflow ==
    /\ call.fn = "PortRange::parse"
    /\ call.spec = <<"6", "5", "5", "3", "6">>
    /\ ~ret.ok

\* the port specifications of the configuration, none when ports are not
\* configured
ConfiguredSpecs ==
    IF IsSome(config.allowed_ports) THEN Unwrap(config.allowed_ports) ELSE <<>>

\* C22: is_port_allowed(port) is true exactly when one of the configured
\* specifications, at any place of the list, is a port or a range that holds
\* the port; the answer is the same for every order of the list, and false for
\* an empty list.
C22_PortOr ==
    call.fn = "is_port_allowed" =>
        /\ ret.value =
              (\E i \in 1..Len(ConfiguredSpecs) :
                  /\ IsSome(ExpectedRange(ConfiguredSpecs[i]))
                  /\ Covers(Unwrap(ExpectedRange(ConfiguredSpecs[i])), call.port))
        /\ \A order \in Orders(1..Len(ConfiguredSpecs)) :
              any_spec_contains([i \in 1..Len(ConfiguredSpecs) |->
                                    ConfiguredSpecs[order[i]]], 1, call.port)
                  = ret.value
        /\ ConfiguredSpecs = <<>> => ret.value = FALSE

\* C22 witness: the port is held by the second specification only, and allowed
C22_Witness ==
    /\ call.fn = "is_port_allowed"
    /\ Len(ConfiguredSpecs) = 2
    /\ ~(/\ IsSome(ExpectedRange(ConfiguredSpecs[1]))
         /\ Covers(Unwrap(ExpectedRange(ConfiguredSpecs[1])), call.port))
    /\ IsSome(ExpectedRange(ConfiguredSpecs[2]))
    /\ Covers(Unwrap(ExpectedRange(ConfiguredSpecs[2])), call.port)
    /\ ret.value = TRUE

\* C22 witnesses: an empty list of specifications allows no port; a list of
\* two specifications that hold other ports does not allow the port
C22_WitnessEmpty ==
    /\ call.fn = "is_port_allowed"
    /\ config.allowed_ports = Some(<<>>)
    /\ ret.value = FALSE

C22_WitnessNone ==
    /\ call.fn = "is_port_allowed"
    /\ Len(ConfiguredSpecs) = 2
    /\ \A i \in 1..2 : IsSome(ExpectedRange(ConfiguredSpecs[i]))
    /\ ret.value = FALSE

\* the deny-only default: the default denylist, no allowlist, no ports
DenyOnlyDefault(cfg) ==
    /\ IsSome(cfg.denylist)
    /\ Unwrap(cfg.denylist) # {}
    /\ \A name \in {"systemd", "init", "sshd"} : name \in Unwrap(cfg.denylist)
    /\ IsNone(cfg.allowlist)
    /\ IsNone(cfg.allowed_ports)

\* the load was given a file that reads and parses
FileParsed ==
    /\ IsSome(call.path)
    /\ Unwrap(call.path).exists
    /\ Unwrap(call.path).read.ok
    /\ Unwrap(call.path).read.value.ok

\* what the file deserializes to
FileConfig == Unwrap(call.path).read.value.value

\* C23: load_from_path gives a configuration for every path. Without a path,
\* without a file, with a file that cannot be read or does not parse it is the
\* deny-only default; a file that parses is taken as it is, with the default
\* denylist added when it has none. The loaded configuration always has a
\* denylist, and it allows a port only when a specification of the file holds
\* the port.
C23_LoadNeverFails ==
    /\ pc = "loaded" => IsSome(config.denylist)
    /\ call.fn = "load_from_path" =>
          /\ ~FileParsed => DenyOnlyDefault(config)
          /\ FileParsed =>
                /\ config.allowlist = FileConfig.allowlist
                /\ config.allowed_ports = FileConfig.allowed_ports
                /\ IsSome(FileConfig.denylist) => config.denylist = FileConfig.denylist
                /\ IsNone(FileConfig.denylist) =>
                      /\ Unwrap(config.denylist) # {}
                      /\ \A name \in {"systemd", "init", "sshd"} :
                            name \in Unwrap(config.denylist)
          /\ \A port \in AskedPorts :
                is_port_allowed(port) =>
                    /\ FileParsed
                    /\ IsSome(FileConfig.allowed_ports)
                    /\ \E i \in 1..Len(Unwrap(FileConfig.allowed_ports)) :
                          LET range == ExpectedRange(Unwrap(FileConfig.allowed_ports)[i])
                          IN  IsSome(range) /\ Covers(Unwrap(range), port)

\* C23 witness: a file that parses, has no denylist and configures port 80 was
\* loaded: the default denylist was added and port 80 is allowed
C23_Witness ==
    /\ call.fn = "load_from_path"
    /\ FileParsed
    /\ IsNone(FileConfig.denylist)
    /\ IsSome(FileConfig.allowlist)
    /\ IsSome(config.denylist)
    /\ "systemd" \in Unwrap(config.denylist)
    /\ is_port_allowed(80)

\* C23 witnesses: the file is not valid TOML; the file cannot be read; the
\* path names no file; there is no path
C23_WitnessInvalidToml ==
    /\ call.fn = "load_from_path"
    /\ call.path = Some([exists |-> TRUE, read |-> Ok(Err("TomlError"))])
    /\ DenyOnlyDefault(config)

C23_WitnessUnreadable ==
    /\ call.fn = "load_from_path"
    /\ call.path = Some([exists |-> TRUE, read |-> Err("PermissionDenied")])
    /\ DenyOnlyDefault(config)

C23_WitnessNoFile ==
    /\ call.fn = "load_from_path"
    /\ IsSome(call.path)
    /\ ~Unwrap(call.path).exists
    /\ DenyOnlyDefault(config)

C23_WitnessNoPath ==
    /\ call.fn = "load_from_path"
    /\ IsNone(call.path)
    /\ DenyOnlyDefault(config)

----------------------------------------------------------------------------
(* Claims about malformed port specifications in the engine (Spec) *)

\* a specification of the configured list is no port and no range
HasMalformedSpec ==
    \E i \in 1..Len(ConfiguredSpecs) : IsNone(ExpectedRange(ConfiguredSpecs[i]))

\* C24: with a specification of malformed port syntax in the allowed-port list
\* the configuration falls back to the deny-only default: kill_by_port returns
\* PortNotAllowed for every port, the ports of the well-formed specifications
\* of the list included, and sends nothing.
C24_MalformedFallsBack ==
    (call.fn = "kill_by_port" /\ HasMalformedSpec)
        => /\ ~ret.ok
           /\ ret.error.type = "PortNotAllowed"
           /\ sent = <<>>

----------------------------------------------------------------------------
(* Claims about list_killable (Spec) *)

\* the pids of the records listed
ListedPids == {ret.value[i].pid : i \in 1..Len(ret.value)}

\* C25: list_killable returns, once each, the records of the engine's snapshot
\* that the predicate chain allows: none has the tool's pid, the pid of its
\* direct parent (as the checker's snapshot records it) or a denylisted name; a
\* pid is listed exactly when kill_by_pid on it with dry_run = true returns a
\* successful result; nothing is sent.
C25_ListKillable ==
    call.fn = "list_killable" =>
        /\ \A i \in 1..Len(ret.value) :
              /\ get(provider, ret.value[i].pid) = Some(ret.value[i])
              /\ \A j \in 1..Len(ret.value) : ret.value[i].pid = ret.value[j].pid => i = j
        /\ \A pid \in (DOMAIN provider) \cup {AbsentPid} :
              /\ pid \in ListedPids <=>
                    /\ IsSome(get(provider, pid))
                    /\ VerdictAllows(pid, Unwrap(get(provider, pid)).name)
              /\ pid \in ListedPids <=>
                    /\ kill_by_pid(pid, "SIGTERM", TRUE, {}).ret.ok
                    /\ kill_by_pid(pid, "SIGTERM", TRUE, {}).ret.value.success
        /\ \A i \in 1..Len(ret.value) :
              /\ ret.value[i].pid # current_pid
              /\ ~SuicideTarget(ret.value[i].pid)
              /\ ~InDenySet(ret.value[i].name)
        /\ sent = <<>>

\* C25 witness: the snapshot holds the tool, its parent and a third process;
\* the list is that third process alone
C25_Witness ==
    /\ call.fn = "list_killable"
    /\ Len(call.order) = 3
    /\ IsSome(ParentOf(anc_provider, current_pid))
    /\ Len(ret.value) = 1
    /\ ~SuicideTarget(ret.value[1].pid)

\* C25 witnesses: a process that is no suicide target is left out for its
\* denylisted name though it is the trust root; a process that is not under
\* the trust root is left out
C25_WitnessDenylisted ==
    /\ call.fn = "list_killable"
    /\ \E pid \in DOMAIN provider :
          /\ IsSome(get(provider, pid))
          /\ ~SuicideTarget(pid)
          /\ InDenySet(Unwrap(get(provider, pid)).name)
          /\ pid = root_pid
          /\ pid \notin ListedPids

C25_WitnessNotDescendant ==
    /\ call.fn = "list_killable"
    /\ \E pid \in DOMAIN provider :
          /\ IsSome(get(provider, pid))
          /\ ~SuicideTarget(pid)
          /\ ~InDenySet(Unwrap(get(provider, pid)).name)
          /\ pid \notin ListedPids

----------------------------------------------------------------------------
(* Specification SpecBatch: one BatchKillResult from new() on, with add     *)
(* called for any result and the three queries called at any time. ret is   *)
(* the batch, call the latest call.                                         *)

\* the longest batch
MaxBatchLen == 4

\* results of the three constructors
BatchResults ==
    {KillResult_success(2, "a", "SIGTERM"),
     KillResult_dry_run(2, "a", "SIGKILL"),
     KillResult_failure(3, "b", Denylisted("b")),
     KillResult_failure(2, "a", PermissionDenied(2))}

InitBatch ==
    /\ os = [p \in 1..1 |-> Rec(None, "a")]
    /\ current_pid = 1
    /\ env_root_pid = None
    /\ config = [allowlist |-> None, denylist |-> None, allowed_ports |-> None]
    /\ provider = os
    /\ anc_provider = os
    /\ port_provider = os
    /\ root_pid = 0
    /\ pc = "batch"
    /\ call = [fn |-> "BatchKillResult::new"]
    /\ ret = BatchKillResult_new
    /\ sent = <<>>
    /\ os_events = 0

BatchAdd ==
    /\ pc = "batch"
    /\ Len(ret.results) < MaxBatchLen
    /\ \E result \in BatchResults :
          /\ call' = [fn |-> "add", result |-> result]
          /\ ret' = BatchKillResult_add(ret, result)
    /\ UNCHANGED <<os, provider, anc_provider, port_provider, root_pid, config,
                   current_pid, env_root_pid, pc, sent, os_events>>

BatchQueries ==
    /\ pc = "batch"
    /\ call' = [fn |-> "queries", all_success |-> all_success(ret),
                any_success |-> any_success(ret), is_empty |-> is_empty(ret)]
    /\ UNCHANGED <<os, provider, anc_provider, port_provider, root_pid, config,
                   current_pid, env_root_pid, pc, ret, sent, os_events>>

NextBatch ==
    \/ BatchAdd
    \/ BatchQueries

SpecBatch == InitBatch /\ [][NextBatch]_vars

----------------------------------------------------------------------------
(* Claims about BatchKillResult (SpecBatch) *)

\* the places of the successful entries
SuccessfulEntries == {i \in 1..Len(ret.results) : ret.results[i].success}

\* C26: after any sequence of add calls total_matched is the number of entries,
\* total_killed the number of entries with success = true, and total_killed <=
\* total_matched; all_success is true exactly when there is an entry and every
\* entry is successful (total_matched > 0 and total_killed = total_matched),
\* any_success exactly when an entry is successful (total_killed > 0).
C26_BatchCounts ==
    /\ ret.total_matched = Len(ret.results)
    /\ ret.total_killed = Cardinality(SuccessfulEntries)
    /\ ret.total_killed <= ret.total_matched
    /\ call.fn = "queries" =>
          /\ call.all_success =
                (ret.results # <<>> /\ SuccessfulEntries = 1..Len(ret.results))
          /\ call.all_success =
                (ret.total_matched > 0 /\ ret.total_killed = ret.total_matched)
          /\ call.any_success = (SuccessfulEntries # {})
          /\ call.any_success = (ret.total_killed > 0)
          /\ call.is_empty = (ret.total_matched = 0)

\* C26 witness: a batch of a success, a failure and a dry run was asked: two
\* of three killed, any_success and not all_success
C26_Witness ==
    /\ call.fn = "queries"
    /\ Len(ret.results) = 3
    /\ ret.results[1].success /\ ~ret.results[2].success /\ ret.results[3].success
    /\ ret.total_matched = 3
    /\ ret.total_killed = 2
    /\ call.any_success
    /\ ~call.all_success

\* C26 witnesses: the empty batch is no success; a batch of successes is one
C26_WitnessEmpty ==
    /\ call.fn = "queries"
    /\ ret.results = <<>>
    /\ ~call.all_success
    /\ ~call.any_success
    /\ call.is_empty

C26_WitnessAll ==
    /\ call.fn = "queries"
    /\ Len(ret.results) = MaxBatchLen
    /\ call.all_success

----------------------------------------------------------------------------
(* Claims about the sends of a real run (SpecChain) *)

RealRun == KillCalled /\ ~call.dry_run

\* kill(2) fails for pid: no such process, or the caller may not signal it
SendFails(pid) == IsNone(get(os, pid)) \/ pid \in call.eperm

SendError(pid) ==
    IF IsNone(get(os, pid)) THEN ProcessNotFound(pid) ELSE PermissionDenied(pid)

\* the entries from place i on that the verdict allows, as the sends they are
\* to cause
RECURSIVE AllowedInOrder(_, _)
AllowedInOrder(results, i) ==
    IF i > Len(results) THEN <<>>
    ELSE IF VerdictAllows(results[i].pid, results[i].name)
         THEN <<[pid |-> results[i].pid, signal |-> call.signal]>>
                  \o AllowedInOrder(results, i + 1)
    ELSE AllowedInOrder(results, i + 1)

\* C27: in a real run the sends are the allowed candidates, each once, in the
\* order of the candidates; a send that fails is not repeated and gives an
\* entry with success = false and the text of the error (Ok from kill_by_pid,
\* counted in total_matched and not in total_killed in a batch), and the
\* candidates after it are judged and signalled as without the failure.
C27_SingleShot ==
    RealRun =>
        /\ ( /\ call.fn = "kill_by_pid"
             /\ IsSome(get(provider, call.pid))
             /\ VerdictAllows(call.pid, Unwrap(get(provider, call.pid)).name) )
              => /\ sent = <<[pid |-> call.pid, signal |-> call.signal]>>
                 /\ ret.ok
                 /\ ret.value.pid = call.pid
                 /\ ret.value.success = ~SendFails(call.pid)
                 /\ SendFails(call.pid)
                        => ret.value.message = to_string(SendError(call.pid))
        /\ (call.fn \in {"kill_by_name", "kill_by_port"} /\ ret.ok)
              => LET results == ret.value.results IN
                 /\ sent = AllowedInOrder(results, 1)
                 /\ \A i \in 1..Len(results) :
                       VerdictAllows(results[i].pid, results[i].name)
                          => /\ results[i].success = ~SendFails(results[i].pid)
                             /\ SendFails(results[i].pid)
                                   => results[i].message =
                                          to_string(SendError(results[i].pid))
                 /\ \A i \in 1..Len(results) :
                       ~VerdictAllows(results[i].pid, results[i].name)
                          => ~results[i].success
                 /\ ret.value.total_matched = Len(results)
                 /\ ret.value.total_killed =
                       Cardinality({i \in 1..Len(results) :
                           /\ VerdictAllows(results[i].pid, results[i].name)
                           /\ ~SendFails(results[i].pid)})
                 /\ call.fn = "kill_by_name"
                       => /\ Len(results) = Len(call.order)
                          /\ \A i \in 1..Len(results) : results[i].pid = call.order[i]
                 /\ call.fn = "kill_by_port"
                       => /\ \A i \in 1..Len(call.sockets.value) :
                                \E j \in 1..Len(results) :
                                    results[j].pid = call.sockets.value[i]
                          /\ \A i, j \in 1..Len(results) :
                                i < j => results[i].pid < results[j].pid

\* C27 witness: a batch of two live owners of a port, both allowed; the send to
\* the first was refused by the system, the second was signalled all the same
C27_Witness ==
    /\ RealRun
    /\ call.fn = "kill_by_port"
    /\ ret.ok
    /\ Len(ret.value.results) = 2
    /\ Len(sent) = 2
    /\ sent[1].pid = ret.value.results[1].pid
    /\ sent[2].pid = ret.value.results[2].pid
    /\ ~ret.value.results[1].success
    /\ ret.value.results[1].message = to_string(PermissionDenied(sent[1].pid))
    /\ ret.value.results[2].success
    /\ ret.value.total_matched = 2
    /\ ret.value.total_killed = 1

\* C27 witnesses: kill_by_pid on a process that left after the snapshot returns
\* Ok with a failed result after one send; in a batch by name a denied
\* candidate comes before a signalled one
C27_WitnessPid ==
    /\ RealRun
    /\ call.fn = "kill_by_pid"
    /\ IsNone(get(os, call.pid))
    /\ ret.ok
    /\ ~ret.value.success
    /\ ret.value.message = to_string(ProcessNotFound(call.pid))
    /\ Len(sent) = 1

C27_WitnessName ==
    /\ RealRun
    /\ call.fn = "kill_by_name"
    /\ ret.ok
    /\ Len(ret.value.results) = 2
    /\ ~VerdictAllows(ret.value.results[1].pid, ret.value.results[1].name)
    /\ ret.value.results[2].success
    /\ Len(sent) = 1

----------------------------------------------------------------------------
(* Claims about the snapshots of the engine (Spec) *)

\* the latest call judged pid: a candidate it resolved
Judged(pid) ==
    /\ IsCandidate(pid)
    /\ call.fn = "kill_by_port" => CandidatesResolved

\* C28: a decision reads one process table. For every candidate judged by a
\* kill operation, the snapshot the candidate's record is resolved in
\* (provider) and the snapshot the suicide and ancestry checks read (the
\* checker's) hold the same record for the tool, and the same record for the
\* candidate when its ancestry is judged; for an owner of a port the port
\* detector's snapshot, which names it, holds the engine's record of it.
C28_OneSnapshot ==
    KillCalled =>
        \A pid \in (DOMAIN os) \cup {AbsentPid} :
            Judged(pid) =>
                /\ get(anc_provider, current_pid) = get(provider, current_pid)
                /\ call.fn \in {"kill_by_pid", "kill_by_name"}
                      => get(anc_provider, pid) = get(provider, pid)
                /\ call.fn = "kill_by_port"
                      => get(port_provider, pid) = get(provider, pid)

----------------------------------------------------------------------------
(* Specification SpecTrustRoot: the checker is constructed on any snapshot  *)
(* of 1..PolPids, with or without an override, so that the trust root is    *)
(* the one get_root_pid resolves; then can_kill is called.                  *)

InitTrustRoot ==
    /\ os \in PolicySnapshots
    /\ current_pid \in 1..PolPids
    /\ env_root_pid \in {None, Some(<<"2">>), Some(<<"4">>)}
    /\ config \in PolicyConfigs
    /\ provider = os
    /\ anc_provider = [p \in 1..PolPids |-> None]
    /\ port_provider = [p \in 1..PolPids |-> None]
    /\ root_pid = 0
    /\ pc = "new_ancestry"
    /\ call = NoCall
    /\ ret = NoRet
    /\ sent = <<>>
    /\ os_events = 0

\* can_kill of the constructed checker
CanKillConstructed ==
    /\ pc = "new_port_detector"
    /\ CallCanKill

NextTrustRoot ==
    \/ NewAncestry
    \/ CanKillConstructed

SpecTrustRoot == InitTrustRoot /\ [][NextTrustRoot]_vars

----------------------------------------------------------------------------
(* Claims about the trust root as a target (SpecTrustRoot) *)

\* C29: for a record with the pid of the trust root and a name in neither list
\* can_kill returns Allowed when the trust root is neither the tool's pid nor
\* its direct parent, and DeniedSuicidePrevention when it is one of them, as
\* it is by the fallbacks of get_root_pid or by an override naming them.
C29_TrustRootTarget ==
    ( /\ CanKillCalled
      /\ call.process.pid = root_pid
      /\ ~InDenySet(call.process.name)
      /\ ~InAllowSet(call.process.name) )
        => ret = IF \/ root_pid = current_pid
                    \/ ParentOf(anc_provider, current_pid) = Some(root_pid)
                 THEN DeniedSuicidePrevention
                 ELSE Allowed

\* C29 witness: the trust root is the tool's grandparent, resolved without
\* override, and its record, in neither list, is allowed
C29_Witness ==
    /\ CanKillCalled
    /\ env_root_pid = None
    /\ call.process.pid = root_pid
    /\ root_pid # current_pid
    /\ ParentOf(anc_provider, current_pid) # Some(root_pid)
    /\ ParentOf(anc_provider, Unwrap(ParentOf(anc_provider, current_pid))) = Some(root_pid)
    /\ ~InDenySet(call.process.name)
    /\ ~InAllowSet(call.process.name)
    /\ ret = Allowed

\* C29 witnesses: the parent has no parent, so the trust root is the parent;
\* the tool has no parent, so the trust root is the tool; the override names
\* the parent: the trust root is a descendant of itself and yet refused. An
\* override naming a pid without record is allowed.
C29_WitnessParent ==
    /\ CanKillCalled
    /\ env_root_pid = None
    /\ call.process.pid = root_pid
    /\ root_pid # current_pid
    /\ ParentOf(anc_provider, current_pid) = Some(root_pid)
    /\ ~InDenySet(call.process.name)
    /\ is_descendant(root_pid)
    /\ ret = DeniedSuicidePrevention

C29_WitnessOwnPid ==
    /\ CanKillCalled
    /\ env_root_pid = None
    /\ call.process.pid = root_pid
    /\ root_pid = current_pid
    /\ ~InDenySet(call.process.name)
    /\ ret = DeniedSuicidePrevention

C29_WitnessOverride ==
    /\ CanKillCalled
    /\ env_root_pid = Some(<<"2">>)
    /\ call.process.pid = 2
    /\ current_pid = 3
    /\ ParentOf(anc_provider, 3) = Some(2)
    /\ IsSome(ParentOf(anc_provider, 2))
    /\ ~InDenySet(call.process.name)
    /\ ret = DeniedSuicidePrevention

C29_WitnessAbsentRoot ==
    /\ CanKillCalled
    /\ env_root_pid = Some(<<"4">>)
    /\ call.process.pid = 4
    /\ ~InDenySet(call.process.name)
    /\ ~InAllowSet(call.process.name)
    /\ ret = Allowed

----------------------------------------------------------------------------
(* Specification SpecSignal: SignalSender::send called with any u32 pid, on *)
(* process tables whose records carry the process group. ret holds the      *)
(* result and the processes the signal was delivered to.                    *)

\* the pids of the process tables of SpecSignal
SigPids == 3

\* the process tables: init in its own process group, and processes in the
\* process groups led (now or once) by the other pids
SignalTables ==
    {t \in [1..SigPids ->
              {None} \cup {Some([parent_pid |-> Some(1), name |-> "a", pgid |-> g]) :
                              g \in 2..SigPids}
                     \cup {Some([parent_pid |-> None, name |-> "a", pgid |-> 1])}] :
        /\ t[1] = Some([parent_pid |-> None, name |-> "a", pgid |-> 1])
        /\ \A p \in 2..SigPids : IsSome(t[p]) => IsSome(Unwrap(t[p]).parent_pid)}

\* the pids send is called with: 0, the pids of the table and one above them,
\* i32::MAX, 2^31, 2^32 - 3, 2^32 - 2, 2^32 - 1
SendPids ==
    {u32(n) : n \in 0..(SigPids + 1)}
        \cup {u32(I32_MAX), [hi |-> 1, lo |-> 0], [hi |-> 1, lo |-> I32_MAX - 2],
              [hi |-> 1, lo |-> I32_MAX - 1], [hi |-> 1, lo |-> I32_MAX]}

InitSignal ==
    /\ os \in SignalTables
    /\ current_pid \in {p \in 2..SigPids : IsSome(os[p])}
    /\ env_root_pid = None
    /\ config = [allowlist |-> None, denylist |-> None, allowed_ports |-> None]
    /\ provider = os
    /\ anc_provider = os
    /\ port_provider = os
    /\ root_pid = 0
    /\ pc = "ready"
    /\ call = NoCall
    /\ ret = NoRet
    /\ sent = <<>>
    /\ os_events = 0

SendSignal ==
    /\ call = NoCall
    /\ \E pid \in SendPids, signal \in Signals, eperm \in SUBSET {1} :
          /\ call' = [fn |-> "SignalSender::send", pid |-> pid, signal |-> signal,
                      eperm |-> eperm, nix_pid |-> as_i32(pid)]
          /\ ret' = [result |-> send_u32(pid, pid, eperm),
                     delivered |-> kill_delivered(as_i32(pid), eperm)]
    /\ UNCHANGED <<os, provider, anc_provider, port_provider, root_pid, config,
                   current_pid, env_root_pid, pc, sent, os_events>>

NextSignal == SendSignal

SpecSignal == InitSignal /\ [][NextSignal]_vars

----------------------------------------------------------------------------
(* Claims about the signal transport (SpecSignal) *)

\* C30: for every u32 pid, send(pid, signal) hands the operating system a pid
\* above 0, and the signal is delivered to no process but the one whose id is
\* pid: never to more than one process.
C30_SendOneProcess ==
    call.fn = "SignalSender::send" =>
        /\ call.nix_pid > 0
        /\ \A p \in ret.delivered : call.pid = u32(p)
        /\ Cardinality(ret.delivered) <= 1

====
